---- MODULE Spec2Model ----
(***************************************************************************)
(* Online Course Management System (Angular client over a REST backend).   *)
(*                                                                         *)
(* The module models three parts of the client:                            *)
(*   - authentication, the route table and its guards   (SpecAuth)         *)
(*   - the collection services, their caches, the REST backend they call   *)
(*     and the enrollment form                           (Spec)            *)
(*   - the join and the statistics of EnrollmentService  (SpecJoin,        *)
(*     SpecStats)                                                          *)
(***************************************************************************)
EXTENDS Integers, Sequences, FiniteSets, TLC

VARIABLES
    \* ---- AuthService, Router ----
    currentUser,     \* AuthService.currentUserSubject.value
    redirectUrl,     \* AuthService.redirectUrl
    url,             \* the URL of the route the router has activated
    loginTimers,     \* usernames of login() calls whose 500 ms timer is pending
    lastNav,         \* the last navigation: the guards that ran and their outcome
    \* ---- REST backend, HttpClient ----
    server,          \* the backend's collections, by endpoint
    nextId,          \* the id the backend gives the next created entity, by endpoint
    http,            \* the HTTP requests in flight, each with its response once served
    \* ---- CourseService, StudentService, EnrollmentService ----
    cache,           \* coursesCache$, studentsCache$, enrollmentsCache$ (.value)
    lastOp,          \* what the last response handler did (NoOp after any other step)
    ops,             \* the number of requests the user's actions have started
    deletedCourses,  \* ids of the courses whose confirmed deleteCourse succeeded
    \* ---- EnrollmentFormComponent ----
    form,            \* courseId, studentId, errors, students, selectedStudent
    \* ---- EnrollmentService's read-only queries ----
    call,            \* the query called and the requests of it that failed
    result,          \* what the query's observable delivered
    \* ---- DashboardComponent, the browser's clock ----
    dashboard,       \* isLoading, and whether dashboardStats is set
    clock            \* the current month and the time zone's side of UTC

authVars == <<currentUser, redirectUrl, url, loginTimers, lastNav>>

svcVars == <<server, nextId, http, cache, lastOp, ops, deletedCourses, form>>

queryVars == <<call, result, dashboard, clock>>

vars == <<currentUser, redirectUrl, url, loginTimers, lastNav,
          server, nextId, http, cache, lastOp, ops, deletedCourses, form,
          call, result, dashboard, clock>>

(***************************************************************************)
(* AuthService                                                             *)
(***************************************************************************)
Null == "null"

Roles == {"admin", "instructor", "student"}

\* User | null: the value of currentUserSubject
NullUser == [present |-> FALSE, role |-> "", token |-> ""]

User(role, token) == [present |-> TRUE, role |-> role, token |-> token]

\* what localStorage.getItem('currentUser') may hold when the service is built
StoredUsers == {NullUser} \cup {User(r, "mock-jwt-token") : r \in Roles}

Usernames == {"admin", "instructor", "alice"}

\* !!this.currentUserValue?.token
isAuthenticated(user) == user.present /\ user.token # ""

\* this.currentUserValue?.role || null
getUserRole(user) == IF user.present /\ user.role # "" THEN user.role ELSE Null

\* the user login() stores when its timer fires
mockUser(username) ==
    User(IF username = "admin" THEN "admin" ELSE "instructor", "mock-jwt-token")

(***************************************************************************)
(* Route table                                                             *)
(***************************************************************************)
NoRoles == {}

routes == <<
    [path |-> "",             redirectTo |-> "/dashboard", canActivate |-> <<>>, roles |-> NoRoles],
    [path |-> "login",        redirectTo |-> "", canActivate |-> <<>>, roles |-> NoRoles],
    [path |-> "dashboard",    redirectTo |-> "", canActivate |-> <<"authGuard">>, roles |-> NoRoles],
    [path |-> "courses",      redirectTo |-> "", canActivate |-> <<"authGuard">>, roles |-> NoRoles],
    [path |-> "students",     redirectTo |-> "", canActivate |-> <<"authGuard", "roleGuard">>,
                              roles |-> {"admin", "instructor"}],
    [path |-> "enrollments",  redirectTo |-> "", canActivate |-> <<"authGuard", "roleGuard">>,
                              roles |-> {"admin", "instructor"}],
    [path |-> "feedback",     redirectTo |-> "", canActivate |-> <<"authGuard">>, roles |-> NoRoles],
    [path |-> "unauthorized", redirectTo |-> "", canActivate |-> <<>>, roles |-> NoRoles],
    [path |-> "**",           redirectTo |-> "", canActivate |-> <<>>, roles |-> NoRoles] >>

\* the URLs a user may ask for, each with the first path segment the router matches
Urls == {"/", "/login", "/dashboard", "/courses", "/courses/new", "/students",
         "/students/new", "/enrollments", "/enrollments/new", "/feedback",
         "/unauthorized", "/reports"}

FirstSegment(u) ==
    CASE u = "/" -> ""
      [] u = "/login" -> "login"
      [] u = "/dashboard" -> "dashboard"
      [] u \in {"/courses", "/courses/new"} -> "courses"
      [] u \in {"/students", "/students/new"} -> "students"
      [] u \in {"/enrollments", "/enrollments/new"} -> "enrollments"
      [] u = "/feedback" -> "feedback"
      [] u = "/unauthorized" -> "unauthorized"
      [] OTHER -> "**"

\* the index of the first route whose path matches the segment ('**' matches all)
RouteIndex(seg) ==
    IF \E i \in 1..Len(routes) : routes[i].path = seg
    THEN CHOOSE i \in 1..Len(routes) :
            routes[i].path = seg /\ \A j \in 1..(i - 1) : routes[j].path # seg
    ELSE Len(routes)

\* the URL after the table's redirect ('' redirects to /dashboard)
Redirected(u) ==
    LET r == routes[RouteIndex(FirstSegment(u))]
    IN IF r.redirectTo # "" THEN r.redirectTo ELSE u

MatchRoute(u) == routes[RouteIndex(FirstSegment(Redirected(u)))]

(***************************************************************************)
(* Guards: each returns its result, the router.navigate it issued ("" for  *)
(* none) and the value it leaves in AuthService.redirectUrl                *)
(***************************************************************************)
roleGuardMutant(user, requiredRoles, redirect) ==
    [guard |-> "roleGuard", result |-> getUserRole(user) # Null,
     navigate |-> IF getUserRole(user) # Null THEN "" ELSE "/unauthorized",
     redirectUrl |-> redirect]

roleGuard(user, requiredRoles, redirect) ==
    LET userRole == getUserRole(user)
    IN IF userRole = Null \/ userRole \notin requiredRoles
       THEN [guard |-> "roleGuard", result |-> FALSE, navigate |-> "/unauthorized",
             redirectUrl |-> redirect]
       ELSE [guard |-> "roleGuard", result |-> TRUE, navigate |-> "",
             redirectUrl |-> redirect]

authGuardMutant(user, stateUrl, redirect) ==
    IF ~isAuthenticated(user)
    THEN [guard |-> "authGuard", result |-> FALSE, navigate |-> "/login",
          redirectUrl |-> redirect]
    ELSE [guard |-> "authGuard", result |-> TRUE, navigate |-> "",
          redirectUrl |-> redirect]

authGuard(user, stateUrl, redirect) ==
    IF ~isAuthenticated(user)
    THEN [guard |-> "authGuard", result |-> FALSE, navigate |-> "/login",
          redirectUrl |-> stateUrl]
    ELSE [guard |-> "authGuard", result |-> TRUE, navigate |-> "",
          redirectUrl |-> redirect]

RunGuard(name, user, route, stateUrl, redirect) ==
    IF name = "authGuard"
    THEN authGuard(user, stateUrl, redirect)
    ELSE roleGuard(user, route.roles, redirect)

\* The router calls the guards of canActivate in order. Whether it still calls
\* the guards that follow one that returned false is the router's choice, not
\* the application's: runAll is either.
RECURSIVE RunGuards(_, _, _, _, _, _, _)
RunGuards(guards, i, user, route, stateUrl, runAll, acc) ==
    IF i > Len(guards) THEN acc
    ELSE IF ~runAll /\ \E k \in 1..Len(acc) : ~acc[k].result THEN acc
    ELSE LET redirect == IF acc = <<>> THEN redirectUrl ELSE acc[Len(acc)].redirectUrl
             run == RunGuard(guards[i], user, route, stateUrl, redirect)
         IN RunGuards(guards, i + 1, user, route, stateUrl, runAll, Append(acc, run))

NoNav == [attempted |-> "", path |-> "", activated |-> FALSE, user |-> NullUser,
          redirectBefore |-> "", runs |-> <<>>]

\* One navigation of the router to u: match, run the guards, activate the
\* route when every guard allowed it, else follow the last router.navigate a
\* guard issued (to /login or /unauthorized, routes without guards).
RouterNavigate(u, user, runAll) ==
    LET stateUrl == Redirected(u)
        route == MatchRoute(u)
        runs == RunGuards(route.canActivate, 1, user, route, stateUrl, runAll, <<>>)
        allowed == \A k \in 1..Len(runs) : runs[k].result
        denials == SelectSeq(runs, LAMBDA r : r.navigate # "")
    IN [url |-> IF allowed THEN stateUrl ELSE denials[Len(denials)].navigate,
        redirectUrl |-> IF runs = <<>> THEN redirectUrl ELSE runs[Len(runs)].redirectUrl,
        nav |-> [attempted |-> stateUrl, path |-> route.path, activated |-> allowed,
                 user |-> user, redirectBefore |-> redirectUrl, runs |-> runs]]

(***************************************************************************)
(* Entities. A date is a string in JSON and a Date once a service has      *)
(* transformed it.                                                         *)
(***************************************************************************)
Svcs == {"courses", "students", "enrollments"}

EmptyCollections == [s \in Svcs |-> <<>>]

IsoString(d) == [kind |-> "string", iso |-> d]

\* typeof x === 'string' ? new Date(x) : x
ToDate(x) == IF x.kind = "string" THEN [kind |-> "Date", iso |-> x.iso] ELSE x

\* JSON.stringify of a request body: a Date is sent as its ISO string
ToJson(x) == IF x.kind = "Date" THEN [kind |-> "string", iso |-> x.iso] ELSE x

Today == "2026-11-01"

ENROLLED == "Enrolled"

IN_PROGRESS == "In Progress"

COMPLETED == "Completed"

DROPPED == "Dropped"

SUSPENDED == "Suspended"

PENDING == "Pending"

EnrollmentStatus == {ENROLLED, IN_PROGRESS, COMPLETED, DROPPED, SUSPENDED, PENDING}

NoEntity == [id |-> 0]

transformCourse(course) == [course EXCEPT !.createdAt = ToDate(@)]

transformStudent(student) == [student EXCEPT !.createdAt = ToDate(@)]

transformEnrollment(enrollment) == [enrollment EXCEPT !.enrollmentDate = ToDate(@)]

Transform(svc, e) ==
    CASE svc = "courses" -> transformCourse(e)
      [] svc = "students" -> transformStudent(e)
      [] svc = "enrollments" -> transformEnrollment(e)

RECURSIVE TransformAll(_, _)
TransformAll(svc, list) ==
    IF list = <<>> THEN <<>>
    ELSE <<Transform(svc, Head(list))>> \o TransformAll(svc, Tail(list))

(***************************************************************************)
(* The cache updates of the services' response handlers (the tap of        *)
(* create / update / patch / delete); the three services share the code.   *)
(***************************************************************************)
\* Array.prototype.findIndex: the first index with that id, -1 when there is none
findIndex(current, id) ==
    IF \E i \in 1..Len(current) : current[i].id = id
    THEN CHOOSE i \in 1..Len(current) :
            current[i].id = id /\ \A j \in 1..(i - 1) : current[j].id # id
    ELSE -1

cacheAfterCreateMutant(svc, current, created) ==
    <<Transform(svc, created)>> \o current

\* this.cache$.next([...current, this.transform(created)])
cacheAfterCreate(svc, current, created) ==
    Append(current, Transform(svc, created))

cacheAfterUpdateMutant(svc, current, id, updated) ==
    Append(SelectSeq(current, LAMBDA e : e.id # id), Transform(svc, updated))

\* current[index] = this.transform(updated); this.cache$.next([...current])
cacheAfterUpdate(svc, current, id, updated) ==
    LET index == findIndex(current, id)
    IN IF index # -1
       THEN [current EXCEPT ![index] = Transform(svc, updated)]
       ELSE current

\* whether update / patch publishes: only inside if (index !== -1)
updateEmits(current, id) == findIndex(current, id) # -1

\* this.cache$.next(current.filter(e => e.id !== id))
cacheAfterDelete(current, id) == SelectSeq(current, LAMBDA e : e.id # id)

cacheAfterLoadMutant(current, list) == current \o list

\* loadAll*: next: (list) => this.cache$.next(list)
cacheAfterLoad(current, list) == list

handleErrorMutant(error) == error.message

\* handleError: new Error(error.message || 'Server error')
handleError(error) ==
    IF error.message # "" THEN error.message ELSE "Server error"

(***************************************************************************)
(* HTTP requests and the REST backend                                      *)
(***************************************************************************)
NoBody == [none |-> TRUE]

NoCtx == [courseId |-> 0, studentId |-> 0, student |-> NoEntity]

Pending == [state |-> "pending", list |-> <<>>, entity |-> NoEntity, message |-> ""]

Ok(list, entity) == [state |-> "ok", list |-> list, entity |-> entity, message |-> ""]

Failed(message) == [state |-> "error", list |-> <<>>, entity |-> NoEntity,
                    message |-> message]

\* from: who subscribed. "load": loadAll* (constructor, refreshCache);
\* "caller": a component calling the service; "form": EnrollmentFormComponent
\* .onSubmit; "dupcheck": validateDuplicateEnrollment; "formLoad": loadData
Request(svc, verb, id, body, from, ctx) ==
    [svc |-> svc, verb |-> verb, id |-> id, body |-> body, from |-> from,
     ctx |-> ctx, resp |-> Pending]

LoadRequest(svc) == Request(svc, "GETALL", 0, NoBody, "load", NoCtx)

NotFound == "Http failure response: 404 Not Found"

\* the messages of a request that fails on the way; "" is an error value
\* that carries no message
TransportErrors == {"", "Http failure response: 0 Unknown Error"}

Exists(list, id) == \E i \in 1..Len(list) : list[i].id = id

\* PATCH: the stored entity with the body's fields written over it
Merge(entity, body) ==
    [f \in DOMAIN entity |-> IF f \in DOMAIN body THEN body[f] ELSE entity[f]]

\* PUT: the body is stored under the id
Replace(id, body) ==
    [f \in DOMAIN body \cup {"id"} |-> IF f = "id" THEN id ELSE body[f]]

\* the backend's answer to a request and the collection it leaves
Served(req, list, newId) ==
    CASE req.verb = "GETALL" -> [resp |-> Ok(list, NoEntity), list |-> list]
      [] req.verb = "POST" ->
            LET created == Replace(newId, req.body)
            IN [resp |-> Ok(<<>>, created), list |-> Append(list, created)]
      [] req.verb = "PUT" ->
            IF Exists(list, req.id)
            THEN LET i == findIndex(list, req.id)
                     e == Replace(req.id, req.body)
                 IN [resp |-> Ok(<<>>, e), list |-> [list EXCEPT ![i] = e]]
            ELSE [resp |-> Failed(NotFound), list |-> list]
      [] req.verb = "PATCH" ->
            IF Exists(list, req.id)
            THEN LET i == findIndex(list, req.id)
                     e == Merge(list[i], req.body)
                 IN [resp |-> Ok(<<>>, e), list |-> [list EXCEPT ![i] = e]]
            ELSE [resp |-> Failed(NotFound), list |-> list]
      [] req.verb = "DELETE" ->
            IF Exists(list, req.id)
            THEN [resp |-> Ok(<<>>, NoEntity),
                  list |-> SelectSeq(list, LAMBDA e : e.id # req.id)]
            ELSE [resp |-> Failed(NotFound), list |-> list]

NoOp == [svc |-> "", verb |-> "", from |-> "", id |-> 0, outcome |-> "",
         entity |-> NoEntity, list |-> <<>>, emitted |-> {}, issued |-> {},
         before |-> <<>>, message |-> "", callerError |-> "", logged |-> FALSE]

NoCall == [name |-> "", failed |-> {}]

NoResult == [state |-> "none", value |-> <<>>, message |-> ""]

\* the component's five Chart fields, each drawn on the canvas of its name
ChartFields == {"categoryChart", "trendChart", "performanceChart", "revenueChart",
                "completionChart"}

\* DashboardComponent's fields as declared: isLoading = true, dashboardStats =
\* null, every chart field null (0). With them, phase: constructed, active
\* (ngOnInit has run) or destroyed; loads: subscriptions of loadDashboardData
\* awaiting their response, issued: those made so far; timers: pending
\* setTimeout(createCharts, 100); created: Chart instances made so far; live:
\* the instances not destroyed, each with the canvas it is bound to
NoDashboard ==
    [phase |-> "constructed", isLoading |-> TRUE, dashboardStats |-> FALSE,
     loads |-> 0, timers |-> 0, issued |-> 0, created |-> 0,
     charts |-> [f \in ChartFields |-> 0], live |-> {}]

\* months are counted from year 0 (12 * year + month - 1); tz is the side of
\* UTC the browser's time zone is on (-1 west, 0 UTC, 1 east)
DefaultClock == [month |-> 12 * 2026 + 10, tz |-> 0]

EmptyForm == [courseId |-> 0, studentId |-> 0, errors |-> "none",
              students |-> <<>>, selectedStudent |-> NoEntity]

InitAuth ==
    /\ currentUser \in StoredUsers
    /\ redirectUrl = "/dashboard"
    /\ url = ""
    /\ loginTimers = {}
    /\ lastNav = NoNav
    /\ server = EmptyCollections
    /\ nextId = [s \in Svcs |-> 1]
    /\ http = {}
    /\ cache = EmptyCollections
    /\ lastOp = NoOp
    /\ ops = 0
    /\ deletedCourses = {}
    /\ form = EmptyForm
    /\ call = NoCall
    /\ result = NoResult
    /\ dashboard = NoDashboard
    /\ clock = DefaultClock

\* the user (or a link) asks the router for a URL
Navigate(u) ==
    \E runAll \in BOOLEAN :
        LET n == RouterNavigate(u, currentUser, runAll)
        IN /\ url' = n.url
           /\ redirectUrl' = n.redirectUrl
           /\ lastNav' = n.nav
           /\ UNCHANGED <<currentUser, loginTimers>>
           /\ UNCHANGED <<svcVars, queryVars>>

\* LoginComponent.onLogin: AuthService.login starts its 500 ms timer
OnLogin(username) ==
    /\ url = "/login"
    /\ username \notin loginTimers
    /\ loginTimers' = loginTimers \cup {username}
    /\ UNCHANGED <<currentUser, redirectUrl, url, lastNav>>
    /\ UNCHANGED <<svcVars, queryVars>>

\* the timer fires: the user is stored and published, then the component's
\* next handler navigates to /dashboard
LoginTimer(username) ==
    /\ username \in loginTimers
    /\ loginTimers' = loginTimers \ {username}
    /\ currentUser' = mockUser(username)
    /\ LET n == RouterNavigate("/dashboard", mockUser(username), FALSE)
       IN /\ url' = n.url
          /\ redirectUrl' = n.redirectUrl
          /\ lastNav' = n.nav
    /\ UNCHANGED <<svcVars, queryVars>>

\* AuthService.logout
Logout ==
    /\ currentUser' = NullUser
    /\ UNCHANGED <<redirectUrl, url, loginTimers, lastNav>>
    /\ UNCHANGED <<svcVars, queryVars>>

(***************************************************************************)
(* The collection services: a session of a signed-in administrator on one  *)
(* of the management pages, against the backend and its fixture (db.json). *)
(***************************************************************************)
MaxInFlight == 1

MaxOps == 2

Undefined == [kind |-> "undefined", iso |-> ""]

Course(id, isActive) ==
    [id |-> id, isActive |-> isActive, createdAt |-> IsoString(Today)]

Student(id, status, enrolledCourses) ==
    [id |-> id, status |-> status, enrolledCourses |-> enrolledCourses,
     createdAt |-> IsoString(Today)]

Enrollment(id, courseId, studentId, status) ==
    [id |-> id, courseId |-> courseId, studentId |-> studentId, status |-> status,
     enrollmentDate |-> IsoString(Today)]

\* the backend's data when the application starts: one course, one student
\* enrolled in it, and that enrollment
Fixture ==
    [courses |-> <<Course(1, TRUE)>>,
     students |-> <<Student(1, "Active", <<1>>)>>,
     enrollments |-> <<Enrollment(1, 1, 1, ENROLLED)>>]

Pages == {"/courses", "/courses/1", "/students", "/enrollments", "/enrollments/new"}

\* ids a page may still show: every id the backend has given out
KnownIds(svc) == 1..(nextId[svc] - 1)

WithoutId(body) == [f \in DOMAIN body \ {"id"} |-> body[f]]

FormLoadRequest == Request("students", "GETALL", 0, NoBody, "formLoad", NoCtx)

\* The service a page is about is built with the page, and its constructor
\* loads its collection. The course detail page and the enrollment pages use
\* EnrollmentService, which injects the other two: those the administrator
\* has built before, on the course and student pages, and they hold what
\* they loaded there. The enrollment form's ngOnInit loads its lists.
BuiltNow(page) ==
    CASE page = "/courses" -> "courses"
      [] page = "/students" -> "students"
      [] OTHER -> "enrollments"

BuiltBefore(page) ==
    IF BuiltNow(page) = "enrollments" THEN {"courses", "students"} ELSE {}

InitialRequests(page) ==
    {LoadRequest(BuiltNow(page))}
    \cup (IF page = "/enrollments/new" THEN {FormLoadRequest} ELSE {})

InitialCaches(page) ==
    [s \in Svcs |-> IF s \in BuiltBefore(page)
                    THEN TransformAll(s, Fixture[s]) ELSE <<>>]

Init ==
    /\ currentUser = User("admin", "mock-jwt-token")
    /\ redirectUrl = "/dashboard"
    /\ url \in Pages
    /\ loginTimers = {}
    /\ lastNav = NoNav
    /\ server = Fixture
    /\ nextId = [s \in Svcs |-> 2]
    /\ http = InitialRequests(url)
    /\ cache = InitialCaches(url)
    /\ lastOp = NoOp
    /\ ops = 0
    /\ deletedCourses = {}
    /\ form = EmptyForm
    /\ call = NoCall
    /\ result = NoResult
    /\ dashboard = NoDashboard
    /\ clock = DefaultClock

\* a component (or a service) sends a request
Issue(req) ==
    /\ Cardinality(http) < MaxInFlight
    /\ ops < MaxOps
    /\ ops' = ops + 1
    /\ http' = http \cup {req}
    /\ lastOp' = NoOp
    /\ UNCHANGED <<server, nextId, cache, deletedCourses, form>>
    /\ UNCHANGED <<authVars, queryVars>>

\* ---- /courses: CourseFormComponent, CourseListComponent ----
createCourse(isActive) ==
    /\ url = "/courses"
    /\ Issue(Request("courses", "POST", 0, WithoutId(Course(0, isActive)), "caller", NoCtx))

\* the form's data carries no createdAt, and PUT stores what it is sent
updateCourse(id, isActive) ==
    /\ url = "/courses"
    /\ Issue(Request("courses", "PUT", id,
                     [isActive |-> isActive, createdAt |-> Undefined], "caller", NoCtx))

\* toggleStatus
patchCourse(id, isActive) ==
    /\ url \in {"/courses", "/courses/1"}
    /\ url = "/courses/1" => id = 1
    /\ Issue(Request("courses", "PATCH", id, [isActive |-> isActive], "caller", NoCtx))

\* CourseListComponent.deleteCourse once the dialog is confirmed
deleteCourse(id) ==
    /\ url \in {"/courses", "/courses/1"}
    /\ url = "/courses/1" => id = 1
    /\ Issue(Request("courses", "DELETE", id, NoBody, "caller", NoCtx))

\* ---- /students: StudentFormComponent, StudentListComponent ----
createStudent ==
    /\ url = "/students"
    /\ Issue(Request("students", "POST", 0, WithoutId(Student(0, "Active", <<>>)),
                     "caller", NoCtx))

\* the form sends the stored student with the form's fields written over it
updateStudent(id, status) ==
    /\ url = "/students"
    /\ Exists(server["students"], id)
    /\ LET existing == server["students"][findIndex(server["students"], id)]
       IN Issue(Request("students", "PUT", id,
                        [existing EXCEPT !.status = status], "caller", NoCtx))

\* updateStudentStatus
patchStudent(id, status) ==
    /\ url = "/students"
    /\ Issue(Request("students", "PATCH", id, [status |-> status], "caller", NoCtx))

deleteStudent(id) ==
    /\ url = "/students"
    /\ Issue(Request("students", "DELETE", id, NoBody, "caller", NoCtx))

\* ---- /enrollments: EnrollmentListComponent, EnrollmentQuickDialogComponent ----
\* createEnrollment builds the entity: status Enrolled (progress 0)
NewEnrollment(courseId, studentId) == WithoutId(Enrollment(0, courseId, studentId, ENROLLED))

\* EnrollmentQuickDialogComponent.isSubmitting: set by submit, cleared by its
\* request's next and error handlers
isSubmitting ==
    \E req \in http : req.svc = "enrollments" /\ req.verb = "POST" /\ req.from = "caller"

\* EnrollmentQuickDialogComponent.submit
quickEnroll(courseId, studentId) ==
    /\ url = "/enrollments"
    /\ ~isSubmitting
    /\ Issue(Request("enrollments", "POST", 0, NewEnrollment(courseId, studentId),
                     "caller", NoCtx))

updateEnrollment(id, status) ==
    /\ url = "/enrollments"
    /\ Exists(server["enrollments"], id)
    /\ LET existing == server["enrollments"][findIndex(server["enrollments"], id)]
       IN Issue(Request("enrollments", "PUT", id,
                        [existing EXCEPT !.status = status], "caller", NoCtx))

\* updateStatus / updateProgress
patchEnrollment(id, status) ==
    /\ url = "/enrollments"
    /\ Issue(Request("enrollments", "PATCH", id, [status |-> status], "caller", NoCtx))

deleteEnrollment(id) ==
    /\ url = "/enrollments"
    /\ Issue(Request("enrollments", "DELETE", id, NoBody, "caller", NoCtx))

\* EnrollmentService.refreshCache
refreshCache ==
    /\ url = "/enrollments"
    /\ Issue(LoadRequest("enrollments"))

\* ---- /enrollments/new: EnrollmentFormComponent ----
FindById(list, id) ==
    IF Exists(list, id) THEN list[findIndex(list, id)] ELSE NoEntity

DupCheckRequest(courseId, studentId) ==
    Request("enrollments", "GETALL", 0, NoBody, "dupcheck",
            [courseId |-> courseId, studentId |-> studentId, student |-> NoEntity])

\* validateDuplicateEnrollment sends its request only with both fields set
DupChecks(courseId, studentId) ==
    IF courseId # 0 /\ studentId # 0 THEN {DupCheckRequest(courseId, studentId)} ELSE {}

\* the user picks a course: the control's valueChanges runs
\* validateDuplicateEnrollment, and the form group, revalidated with the new
\* value, drops the error set by hand
selectCourse(courseId) ==
    /\ url = "/enrollments/new"
    /\ Cardinality(http) < MaxInFlight
    /\ form' = [form EXCEPT !.courseId = courseId, !.errors = "none"]
    /\ http' = http \cup DupChecks(courseId, form.studentId)
    /\ lastOp' = NoOp
    /\ UNCHANGED <<server, nextId, cache, ops, deletedCourses>>
    /\ UNCHANGED <<authVars, queryVars>>

selectStudent(studentId) ==
    /\ url = "/enrollments/new"
    /\ Cardinality(http) < MaxInFlight
    /\ form' = [form EXCEPT !.studentId = studentId, !.errors = "none",
                            !.selectedStudent = FindById(form.students, studentId)]
    /\ http' = http \cup DupChecks(form.courseId, studentId)
    /\ lastOp' = NoOp
    /\ UNCHANGED <<server, nextId, cache, ops, deletedCourses>>
    /\ UNCHANGED <<authVars, queryVars>>

\* this.enrollmentForm.invalid: a required field is empty or the group has errors
formInvalid == form.courseId = 0 \/ form.studentId = 0 \/ form.errors # "none"

onSubmit ==
    /\ url = "/enrollments/new"
    /\ ~formInvalid
    /\ Issue(Request("enrollments", "POST", 0,
                     NewEnrollment(form.courseId, form.studentId), "form",
                     [courseId |-> form.courseId, studentId |-> form.studentId,
                      student |-> NoEntity]))

\* ---- the backend ----
Serve(req) ==
    /\ req \in http
    /\ req.resp = Pending
    /\ LET r == Served(req, server[req.svc], nextId[req.svc])
       IN /\ server' = [server EXCEPT ![req.svc] = r.list]
          /\ nextId' = [nextId EXCEPT ![req.svc] = IF req.verb = "POST" THEN @ + 1 ELSE @]
          /\ http' = (http \ {req}) \cup {[req EXCEPT !.resp = r.resp]}
    /\ lastOp' = NoOp
    /\ UNCHANGED <<cache, ops, deletedCourses, form>>
    /\ UNCHANGED <<authVars, queryVars>>

\* the request fails on the way
Fail(req, message) ==
    /\ req \in http
    /\ req.resp = Pending
    /\ http' = (http \ {req}) \cup {[req EXCEPT !.resp = Failed(message)]}
    /\ lastOp' = NoOp
    /\ UNCHANGED <<server, nextId, cache, ops, deletedCourses, form>>
    /\ UNCHANGED <<authVars, queryVars>>

\* ---- the response handlers ----
\* createEnrollment and deleteEnrollment refresh the course and student caches
RelatedRefreshes(svc) ==
    IF svc = "enrollments" THEN {LoadRequest("courses"), LoadRequest("students")} ELSE {}

\* validateDuplicateEnrollment's scan of the fetched enrollments
duplicate(enrollments, courseId, studentId) ==
    \E i \in 1..Len(enrollments) :
        /\ enrollments[i].courseId = courseId
        /\ enrollments[i].studentId = studentId
        /\ enrollments[i].status \in {IN_PROGRESS, PENDING}

\* onSubmit's next: the selected student is sent back with the course added
StudentUpdateRequests(courseId) ==
    IF form.selectedStudent # NoEntity
    THEN {Request("students", "PUT", form.selectedStudent.id,
                  WithoutId([form.selectedStudent EXCEPT
                                !.enrolledCourses = Append(@, courseId),
                                !.createdAt = ToJson(@)]),
                  "caller", NoCtx)}
    ELSE {}

\* what the handlers of a successful response do: the caches, the subjects
\* that emitted, the requests sent from inside the handlers, the form
OnNext(req) ==
    LET svc == req.svc
        current == cache[svc]
        same == [cache |-> cache, emitted |-> {}, issued |-> {}, form |-> form]
    IN CASE req.from = "load" ->
              [same EXCEPT !.cache = [cache EXCEPT ![svc] =
                                cacheAfterLoad(current, TransformAll(svc, req.resp.list))],
                           !.emitted = {svc}]
         [] req.from = "formLoad" ->
              [same EXCEPT !.form = [form EXCEPT !.students =
                                        TransformAll(svc, req.resp.list)]]
         [] req.from = "dupcheck" ->
              [same EXCEPT !.form = [form EXCEPT !.errors =
                    IF duplicate(TransformAll(svc, req.resp.list),
                                 req.ctx.courseId, req.ctx.studentId)
                    THEN "duplicate" ELSE "none"]]
         [] req.verb = "POST" ->
              [same EXCEPT !.cache = [cache EXCEPT ![svc] =
                                cacheAfterCreate(svc, current, req.resp.entity)],
                           !.emitted = {svc},
                           !.issued = RelatedRefreshes(svc) \cup
                                (IF req.from = "form"
                                 THEN StudentUpdateRequests(req.ctx.courseId) ELSE {})]
         [] req.verb \in {"PUT", "PATCH"} ->
              [same EXCEPT !.cache = [cache EXCEPT ![svc] =
                                cacheAfterUpdate(svc, current, req.id, req.resp.entity)],
                           !.emitted = IF updateEmits(current, req.id) THEN {svc} ELSE {}]
         [] req.verb = "DELETE" ->
              [same EXCEPT !.cache = [cache EXCEPT ![svc] =
                                cacheAfterDelete(current, req.id)],
                           !.emitted = {svc},
                           !.issued = RelatedRefreshes(svc)]

\* what a failed response leaves the handlers to do: nothing but pass the
\* error on (catchError(this.handleError)); tap does not run
OnError(req) == [cache |-> cache, emitted |-> {}, issued |-> {}, form |-> form]

\* the response reaches the client
Deliver(req) ==
    /\ req \in http
    /\ req.resp # Pending
    /\ LET ok == req.resp.state = "ok"
           eff == IF ok THEN OnNext(req) ELSE OnError(req)
       IN /\ cache' = eff.cache
          /\ form' = eff.form
          /\ http' = (http \ {req}) \cup eff.issued
          /\ deletedCourses' =
                IF ok /\ req.svc = "courses" /\ req.verb = "DELETE"
                THEN deletedCourses \cup {req.id} ELSE deletedCourses
          /\ lastOp' = [svc |-> req.svc, verb |-> req.verb, from |-> req.from,
                        id |-> req.id, outcome |-> req.resp.state,
                        entity |-> req.resp.entity, list |-> req.resp.list,
                        emitted |-> eff.emitted, issued |-> eff.issued,
                        before |-> cache[req.svc], message |-> req.resp.message,
                        callerError |-> IF ok THEN "" ELSE handleError(req.resp),
                        \* loadAll* logs the error; so do the components
                        logged |-> ~ok]
    /\ UNCHANGED <<server, nextId, ops>>
    /\ UNCHANGED <<authVars, queryVars>>

\* the courses and students the dialog and the form offer: no page that
\* creates or deletes one is open in an enrollment session
CourseIds == {Fixture["courses"][i].id : i \in 1..Len(Fixture["courses"])}

StudentIds == {Fixture["students"][i].id : i \in 1..Len(Fixture["students"])}

Next ==
    \/ createCourse(TRUE)
    \/ \E id \in KnownIds("courses") : updateCourse(id, TRUE)
    \/ \E id \in KnownIds("courses") : patchCourse(id, FALSE)
    \/ \E id \in KnownIds("courses") : deleteCourse(id)
    \/ createStudent
    \/ \E id \in KnownIds("students") : updateStudent(id, "Graduated")
    \/ \E id \in KnownIds("students") : patchStudent(id, "Inactive")
    \/ \E id \in KnownIds("students") : deleteStudent(id)
    \/ \E c \in CourseIds, st \in StudentIds : quickEnroll(c, st)
    \/ \E id \in KnownIds("enrollments") : updateEnrollment(id, DROPPED)
    \/ \E id \in KnownIds("enrollments") : patchEnrollment(id, IN_PROGRESS)
    \/ \E id \in KnownIds("enrollments") : deleteEnrollment(id)
    \/ refreshCache
    \/ \E c \in CourseIds : selectCourse(c)
    \/ \E st \in StudentIds : selectStudent(st)
    \/ onSubmit
    \/ \E req \in http : Serve(req)
    \/ \E req \in http, m \in TransportErrors : Fail(req, m)
    \/ \E req \in http : Deliver(req)

Spec == Init /\ [][Next]_vars

NextAuth ==
    \/ \E u \in Urls : Navigate(u)
    \/ \E n \in Usernames : OnLogin(n)
    \/ \E n \in Usernames : LoginTimer(n)
    \/ Logout

SpecAuth == InitAuth /\ [][NextAuth]_vars

(***************************************************************************)
(* Claims about the guards and the route table (SpecAuth)                  *)
(***************************************************************************)
RestrictedPaths == {"students", "enrollments"}

StaffRoles == {"admin", "instructor"}

IsStaff(user) == user.present /\ user.role \in StaffRoles

\* C1: on /students and /enrollments roleGuard returns true without navigating
\* exactly for an admin or an instructor; for a user with no role or another
\* role it returns false and navigates to /unauthorized; and neither route is
\* ever activated for a user who is not an admin or an instructor.
C1_RoleGuardStaffOnly ==
    /\ \A k \in 1..Len(lastNav.runs) :
          (lastNav.runs[k].guard = "roleGuard" /\ lastNav.path \in RestrictedPaths) =>
              /\ lastNav.runs[k].result = IsStaff(lastNav.user)
              /\ lastNav.runs[k].navigate =
                    IF IsStaff(lastNav.user) THEN "" ELSE "/unauthorized"
    /\ (lastNav.activated /\ lastNav.path \in RestrictedPaths) =>
          /\ IsStaff(lastNav.user)
          /\ \E k \in 1..Len(lastNav.runs) : lastNav.runs[k].guard = "roleGuard"

\* a student asked for /students, roleGuard ran, denied and sent them to /unauthorized
C1_Witness ==
    /\ lastNav.path = "students"
    /\ lastNav.user.role = "student"
    /\ ~lastNav.activated
    /\ \E k \in 1..Len(lastNav.runs) :
          lastNav.runs[k].guard = "roleGuard" /\ ~lastNav.runs[k].result
    /\ url = "/unauthorized"

\* C2: no route other than 'login' is activated while isAuthenticated() is false.
C2_AllRoutesButLoginNeedAuth ==
    (lastNav.activated /\ lastNav.path # "login") => isAuthenticated(lastNav.user)

AuthRuns == {k \in 1..Len(lastNav.runs) : lastNav.runs[k].guard = "authGuard"}

C3_Inv ==
    /\ \A k \in AuthRuns :
          IF isAuthenticated(lastNav.user)
          THEN /\ lastNav.runs[k].result
               /\ lastNav.runs[k].navigate = ""
               /\ lastNav.runs[k].redirectUrl = lastNav.redirectBefore
          ELSE /\ ~lastNav.runs[k].result
               /\ lastNav.runs[k].navigate = "/login"
               /\ lastNav.runs[k].redirectUrl = lastNav.attempted
    /\ (AuthRuns # {} /\ isAuthenticated(lastNav.user)) =>
          redirectUrl = lastNav.redirectBefore
    /\ (AuthRuns # {} /\ ~isAuthenticated(lastNav.user)) =>
          /\ ~lastNav.activated
          /\ redirectUrl = lastNav.attempted

\* a navigation that is not the one a login issues leaves the user as it was
C3_Step ==
    (lastNav' # lastNav /\ loginTimers' = loginTimers) => currentUser' = currentUser

\* C3: without a token authGuard denies, stores the attempted URL in redirectUrl
\* and navigates to /login; with a token it allows and leaves redirectUrl and
\* the authentication state unchanged.
C3_AuthGuard == []C3_Inv /\ [][C3_Step]_vars

\* nobody is logged in, /courses/new was asked for: denied, URL stored, sent to /login
C3_Witness ==
    /\ lastNav.attempted = "/courses/new"
    /\ ~lastNav.activated
    /\ ~isAuthenticated(lastNav.user)
    /\ lastNav.redirectBefore = "/dashboard"
    /\ redirectUrl = "/courses/new"
    /\ url = "/login"


(***************************************************************************)
(* Claims about the collection services and the enrollment form (Spec)     *)
(***************************************************************************)
ActiveStatuses == {ENROLLED, IN_PROGRESS, PENDING}

Mutations == {"POST", "PUT", "PATCH", "DELETE"}

ActiveFor(enrollments, courseId, studentId) ==
    {i \in 1..Len(enrollments) :
        /\ enrollments[i].courseId = courseId
        /\ enrollments[i].studentId = studentId
        /\ enrollments[i].status \in ActiveStatuses}

\* C4: in a session of the enrollment form, which starts from a collection
\* without duplicates, the backend never holds two active enrollments
\* (Enrolled, In Progress or Pending) of the same student in the same course,
\* and the form's create request is never in flight for a pair that already
\* has an active enrollment.
C4_NoDoubleEnroll ==
    url = "/enrollments/new" =>
        /\ \A c \in CourseIds, st \in StudentIds :
              Cardinality(ActiveFor(server["enrollments"], c, st)) <= 1
        /\ \A req \in http :
              (req.from = "form" /\ req.resp = Pending) =>
                  ActiveFor(server["enrollments"], req.ctx.courseId,
                            req.ctx.studentId) = {}

\* C5: once a confirmed deleteCourse(id) has succeeded the course is absent
\* from the course cache, no cached enrollment has courseId = id and no
\* cached student lists id in enrolledCourses.
C5_DeleteCourseDeletesRelated ==
    \A id \in deletedCourses :
        /\ ~Exists(cache["courses"], id)
        /\ \A i \in 1..Len(cache["enrollments"]) : cache["enrollments"][i].courseId # id
        /\ \A i \in 1..Len(cache["students"]) :
              \A k \in 1..Len(cache["students"][i].enrolledCourses) :
                  cache["students"][i].enrolledCourses[k] # id

\* the step is the delivery of a successful / failed response of a mutation
MutationDelivered(outcome) ==
    /\ lastOp'.outcome = outcome
    /\ lastOp'.verb \in Mutations
    /\ lastOp'.from \in {"caller", "form"}

C6_Step ==
    MutationDelivered("ok") =>
        LET op == lastOp'
            svc == op.svc
            old == cache[svc]
            new == cache'[svc]
            entity == Transform(svc, op.entity)
            cached == {i \in 1..Len(old) : old[i].id = op.id}
        IN /\ \A s \in Svcs \ {svc} : cache'[s] = cache[s]
           /\ op.verb = "POST" =>
                 /\ new = Append(old, entity)
                 /\ op.emitted = {svc}
           /\ op.verb = "DELETE" =>
                 /\ new = SelectSeq(old, LAMBDA e : e.id # op.id)
                 /\ op.emitted = {svc}
           /\ (op.verb \in {"PUT", "PATCH"} /\ cached # {}) =>
                 /\ Len(new) = Len(old)
                 /\ \E i \in cached :
                       /\ new[i] = entity
                       /\ \A j \in 1..Len(old) : j # i => new[j] = old[j]
                 /\ op.emitted = {svc}
           /\ (op.verb \in {"PUT", "PATCH"} /\ cached = {}) =>
                 /\ new = old
                 /\ op.emitted = {}

C7_Step ==
    lastOp'.from = "load" =>
        LET op == lastOp'
            svc == op.svc
        IN /\ \A s \in Svcs \ {svc} : cache'[s] = cache[s]
           /\ op.outcome = "ok" =>
                 /\ Len(cache'[svc]) = Len(op.list)
                 /\ \A i \in 1..Len(op.list) : cache'[svc][i] = Transform(svc, op.list[i])
           /\ op.outcome = "error" =>
                 /\ cache'[svc] = cache[svc]
                 /\ op.logged
                 /\ op.emitted = {}
                 /\ op.issued = {}

\* C7: when a refreshCache or the constructor's load succeeds the cache
\* becomes exactly the fetched collection, whatever it held; when the fetch
\* fails the cache keeps its content and the error is only logged.
C7_RefreshOverwrites == [][C7_Step]_vars

\* a refresh replaced a cache that held something else
C7_Witness ==
    /\ lastOp.from = "load"
    /\ lastOp.outcome = "ok"
    /\ lastOp.before # <<>>
    /\ cache[lastOp.svc] # lastOp.before

C8_Step ==
    MutationDelivered("error") =>
        LET op == lastOp'
        IN /\ cache' = cache
           /\ op.emitted = {}
           /\ op.issued = {}
           /\ http' \subseteq http
           /\ op.callerError = IF op.message # "" THEN op.message ELSE "Server error"

\* C8: when the request of a create, update, patch or delete fails the caches
\* are unchanged, no refresh of a related cache starts, the request is not
\* sent again, and the caller gets an Error with the failure's message, or
\* 'Server error' when the failure has none.
C8_MutationFailure == [][C8_Step]_vars

\* a failed createEnrollment whose error carried no message
C8_Witness ==
    /\ lastOp.outcome = "error"
    /\ lastOp.verb = "POST"
    /\ lastOp.svc = "enrollments"
    /\ lastOp.message = ""
    /\ lastOp.callerError = "Server error"

(***************************************************************************)
(* EnrollmentService.getAllEnrollmentsWithDetails: the query over drawn     *)
(* collections, any of its requests failing on the way.                    *)
(***************************************************************************)
MaxJoinLen == 2

CourseTitles == <<"Angular Basics", "Linear Algebra">>

CourseCategories == <<"Web Development", "Mathematics">>

StudentNames == <<"Asha", "Bruno">>

StudentEmails == <<"asha@example.com", "bruno@example.com">>

JoinCourse(id) ==
    [id |-> id, title |-> CourseTitles[id], category |-> CourseCategories[id],
     createdAt |-> IsoString(Today)]

JoinStudent(id) ==
    [id |-> id, name |-> StudentNames[id], email |-> StudentEmails[id],
     createdAt |-> IsoString(Today)]

\* the collections the backend may hold: none, one or both of two entities
JoinCourseLists ==
    {<<>>, <<JoinCourse(1)>>, <<JoinCourse(2)>>,
     <<JoinCourse(1), JoinCourse(2)>>, <<JoinCourse(2), JoinCourse(1)>>}

JoinStudentLists ==
    {<<>>, <<JoinStudent(1)>>, <<JoinStudent(2)>>,
     <<JoinStudent(1), JoinStudent(2)>>, <<JoinStudent(2), JoinStudent(1)>>}

\* enrollment lists of up to MaxJoinLen enrollments, ids in order of creation
JoinEnrollmentLists ==
    UNION {{[i \in 1..n |-> Enrollment(i, f[i][1], f[i][2], ENROLLED)] :
                f \in [1..n -> (1..2) \X (1..2)]} : n \in 0..MaxJoinLen}

IdleApp ==
    /\ currentUser = User("admin", "mock-jwt-token")
    /\ redirectUrl = "/dashboard"
    /\ url = "/enrollments"
    /\ loginTimers = {}
    /\ lastNav = NoNav
    /\ nextId = [s \in Svcs |-> 1]
    /\ http = {}
    /\ cache = EmptyCollections
    /\ lastOp = NoOp
    /\ ops = 0
    /\ deletedCourses = {}
    /\ form = EmptyForm
    /\ call = NoCall
    /\ result = NoResult
    /\ dashboard = NoDashboard

IdleSession == IdleApp /\ clock = DefaultClock

InitJoin ==
    /\ IdleSession
    /\ \E cs \in JoinCourseLists, ss \in JoinStudentLists, es \in JoinEnrollmentLists :
          server = [courses |-> cs, students |-> ss, enrollments |-> es]

\* a GET of a collection (id 0) or of one entity
Get(svc, id) == [svc |-> svc, id |-> id]

\* the response of getAll*(): the transformed collection, or the error as
\* catchError(this.handleError) rewraps it
getAll(svc, failed, message) ==
    IF Get(svc, 0) \in failed
    THEN Failed(handleError(Failed(message)))
    ELSE Ok(TransformAll(svc, server[svc]), NoEntity)

\* getCourseById / getStudentById: GET /<svc>/<id>, 404 for an unknown id
getById(svc, id, failed, message) ==
    IF Get(svc, id) \in failed
    THEN Failed(handleError(Failed(message)))
    ELSE IF Exists(server[svc], id)
         THEN Ok(<<>>, Transform(svc, FindById(server[svc], id)))
         ELSE Failed(handleError(Failed(NotFound)))

joinRequestsMutant(enrollment) ==
    [course |-> Get("courses", enrollment.id),
     student |-> Get("students", enrollment.studentId)]

\* the two requests forkJoin sends for an enrollment
joinRequests(enrollment) ==
    [course |-> Get("courses", enrollment.courseId),
     student |-> Get("students", enrollment.studentId)]

Spread(a, b) ==
    [f \in DOMAIN a \cup DOMAIN b |-> IF f \in DOMAIN b THEN b[f] ELSE a[f]]

\* map(({ enrollment, course, student }) => ({ ...enrollment, courseName, ... }))
withDetails(enrollment, course, student) ==
    Spread(enrollment,
           [courseName |-> course.title, courseCategory |-> course.category,
            studentName |-> student.name, studentEmail |-> student.email])

\* every result the observable can deliver: forkJoin fails with the first
\* error to arrive, whichever request it is from
getAllEnrollmentsWithDetailsResults(failed, message) ==
    LET all == getAll("enrollments", failed, message)
        enrollments == all.list
        course(i) == LET r == joinRequests(enrollments[i]).course
                     IN getById(r.svc, r.id, failed, message)
        student(i) == LET r == joinRequests(enrollments[i]).student
                      IN getById(r.svc, r.id, failed, message)
        errors == {course(i).message : i \in {j \in 1..Len(enrollments) :
                                                 course(j).state = "error"}}
                  \cup {student(i).message : i \in {j \in 1..Len(enrollments) :
                                                 student(j).state = "error"}}
    IN IF all.state = "error"
       THEN {[state |-> "error", value |-> <<>>, message |-> handleError(all)]}
       ELSE IF Len(enrollments) = 0
       THEN {[state |-> "ok", value |-> <<>>, message |-> ""]}
       ELSE IF errors # {}
       THEN {[state |-> "error", value |-> <<>>, message |-> handleError(Failed(m))] :
                m \in errors}
       ELSE {[state |-> "ok", message |-> "",
              value |-> [i \in 1..Len(enrollments) |->
                            withDetails(enrollments[i], course(i).entity,
                                        student(i).entity)]]}

\* the requests the query can send against this backend
JoinRequests ==
    {Get("enrollments", 0)}
    \cup {joinRequests(server["enrollments"][i]).course : i \in 1..Len(server["enrollments"])}
    \cup {joinRequests(server["enrollments"][i]).student : i \in 1..Len(server["enrollments"])}

getAllEnrollmentsWithDetails(failed, message) ==
    /\ call = NoCall
    /\ call' = [name |-> "getAllEnrollmentsWithDetails", failed |-> failed]
    /\ result' \in getAllEnrollmentsWithDetailsResults(failed, message)
    /\ UNCHANGED <<authVars, svcVars, dashboard, clock>>

NextJoin ==
    \E failed \in SUBSET JoinRequests, message \in TransportErrors :
        /\ (failed = {} => message = "")
        /\ getAllEnrollmentsWithDetails(failed, message)

SpecJoin == InitJoin /\ [][NextJoin]_vars

Fetchable(svc, id) == Exists(server[svc], id) /\ Get(svc, id) \notin call.failed

\* C9: getAllEnrollmentsWithDetails yields one detailed record per
\* enrollment, in the enrollments' order, with the name and category of the
\* course whose id is the enrollment's courseId and the name and e-mail of the
\* student whose id is its studentId; an empty enrollment list yields an empty
\* list; and when a referenced course or student cannot be fetched the call
\* fails and delivers no list.
C9_JoinByForeignKey ==
    call.name = "getAllEnrollmentsWithDetails" =>
        LET es == server["enrollments"]
            listed == Get("enrollments", 0) \notin call.failed
        IN /\ result.state \in {"ok", "error"}
           /\ result.state = "ok" =>
                 /\ Len(result.value) = Len(es)
                 /\ \A i \in 1..Len(es) :
                       /\ result.value[i].id = es[i].id
                       /\ result.value[i].courseId = es[i].courseId
                       /\ result.value[i].studentId = es[i].studentId
                       /\ \E k \in 1..Len(server["courses"]) :
                             /\ server["courses"][k].id = es[i].courseId
                             /\ result.value[i].courseName = server["courses"][k].title
                             /\ result.value[i].courseCategory = server["courses"][k].category
                       /\ \E k \in 1..Len(server["students"]) :
                             /\ server["students"][k].id = es[i].studentId
                             /\ result.value[i].studentName = server["students"][k].name
                             /\ result.value[i].studentEmail = server["students"][k].email
           /\ (listed /\ es = <<>>) => (result.state = "ok" /\ result.value = <<>>)
           /\ (\E i \in 1..Len(es) : ~Fetchable("courses", es[i].courseId)
                                      \/ ~Fetchable("students", es[i].studentId)) =>
                 (result.state = "error" /\ result.value = <<>>)
           /\ (listed /\ \A i \in 1..Len(es) : Fetchable("courses", es[i].courseId)
                                            /\ Fetchable("students", es[i].studentId)) =>
                 result.state = "ok"

\* two enrollments joined with different courses, the second with course 1
C9_Witness ==
    /\ call.name = "getAllEnrollmentsWithDetails"
    /\ result.state = "ok"
    /\ Len(result.value) = 2
    /\ result.value[1].courseName = CourseTitles[2]
    /\ result.value[2].courseName = CourseTitles[1]
    /\ result.value[1].studentName # result.value[2].studentName

(***************************************************************************)
(* EnrollmentService.getEnrollmentStats over drawn enrollment collections. *)
(* The three averages are numbers with two decimals: the model holds them  *)
(* in hundredths (3333 is 33.33).                                          *)
(***************************************************************************)
MaxStatsLen == 3

\* Enrollment.grade is optional
NoGrade == [defined |-> FALSE, value |-> 0]

Grade(g) == [defined |-> TRUE, value |-> g]

StatsEnrollment(status, progress, grade) ==
    [status |-> status, progress |-> progress, grade |-> grade]

\* the enrollments a collection is drawn from: every status, graded and
\* ungraded, a grade of 0 among the grades
StatsSamples ==
    {StatsEnrollment(ENROLLED, 0, NoGrade),
     StatsEnrollment(IN_PROGRESS, 50, NoGrade),
     StatsEnrollment(IN_PROGRESS, 25, Grade(0)),
     StatsEnrollment(COMPLETED, 100, Grade(85)),
     StatsEnrollment(COMPLETED, 100, Grade(90)),
     StatsEnrollment(COMPLETED, 100, NoGrade),
     StatsEnrollment(DROPPED, 20, NoGrade),
     StatsEnrollment(SUSPENDED, 30, Grade(40)),
     StatsEnrollment(PENDING, 0, NoGrade)}

StatsEnrollmentLists ==
    UNION {{[i \in 1..n |-> Spread(Enrollment(i, 1, 1, f[i].status),
                                   [progress |-> f[i].progress, grade |-> f[i].grade])] :
                f \in [1..n -> StatsSamples]} : n \in 0..MaxStatsLen}

InitStats ==
    /\ IdleSession
    /\ \E es \in StatsEnrollmentLists :
          server = [courses |-> <<>>, students |-> <<>>, enrollments |-> es]

\* enrollments.filter(e => e.status === ... || ...).length
Count(enrollments, statuses) ==
    Len(SelectSeq(enrollments, LAMBDA e : e.status \in statuses))

\* numbers.reduce((sum, n) => sum + n, 0)
RECURSIVE Sum(_)
Sum(numbers) ==
    IF numbers = <<>> THEN 0 ELSE Head(numbers) + Sum(Tail(numbers))

Round2Mutant(num, den) == (100 * num) \div den

\* Math.round((num / den) * 100) / 100, in hundredths: Math.round takes the
\* nearest integer, a half upwards
Round2(num, den) == (200 * num + den) \div (2 * den)

getEnrollmentStatsOf(enrollments) ==
    LET total == Len(enrollments)
        active == Count(enrollments, {ENROLLED, IN_PROGRESS})
        completed == Count(enrollments, {COMPLETED})
        dropped == Count(enrollments, {DROPPED})
        totalProgress == Sum([i \in 1..Len(enrollments) |-> enrollments[i].progress])
        gradedEnrollments == SelectSeq(enrollments, LAMBDA e : e.grade.defined)
        totalGrade == Sum([i \in 1..Len(gradedEnrollments) |->
                               gradedEnrollments[i].grade.value])
    IN [totalEnrollments |-> total,
        activeEnrollments |-> active,
        completedEnrollments |-> completed,
        droppedEnrollments |-> dropped,
        averageProgress |-> IF total > 0 THEN Round2(totalProgress, total) ELSE 0,
        averageGrade |-> IF Len(gradedEnrollments) > 0
                         THEN Round2(totalGrade, Len(gradedEnrollments)) ELSE 0,
        completionRate |-> IF total > 0 THEN Round2(completed * 100, total) ELSE 0]

getEnrollmentStats(failed, message) ==
    /\ call = NoCall
    /\ call' = [name |-> "getEnrollmentStats", failed |-> failed]
    /\ LET all == getAll("enrollments", failed, message)
       IN result' = IF all.state = "error"
                    THEN [state |-> "error", value |-> <<>>, message |-> handleError(all)]
                    ELSE [state |-> "ok", value |-> getEnrollmentStatsOf(all.list),
                          message |-> ""]
    /\ UNCHANGED <<authVars, svcVars, dashboard, clock>>

NextStats ==
    \/ getEnrollmentStats({}, "")
    \/ \E message \in TransportErrors : getEnrollmentStats({Get("enrollments", 0)}, message)

SpecStats == InitStats /\ [][NextStats]_vars

StatsDelivered == call.name = "getEnrollmentStats" /\ result.state = "ok"

WithStatus(S) == {i \in 1..Len(server["enrollments"]) : server["enrollments"][i].status \in S}

Graded == {i \in 1..Len(server["enrollments"]) : server["enrollments"][i].grade.defined}

RECURSIVE GradeTotal(_)
GradeTotal(I) ==
    IF I = {} THEN 0
    ELSE LET i == CHOOSE x \in I : TRUE
         IN server["enrollments"][i].grade.value + GradeTotal(I \ {i})

\* the counts of the statistics, and the two values that are 0 over nothing
C10_Counts ==
    LET stats == result.value
    IN /\ stats.totalEnrollments = Len(server["enrollments"])
       /\ stats.activeEnrollments = Cardinality(WithStatus({ENROLLED, IN_PROGRESS}))
       /\ stats.completedEnrollments = Cardinality(WithStatus({COMPLETED}))
       /\ stats.droppedEnrollments = Cardinality(WithStatus({DROPPED}))
       /\ stats.activeEnrollments + stats.completedEnrollments
             + stats.droppedEnrollments <= stats.totalEnrollments
       /\ Len(server["enrollments"]) = 0 => stats.completionRate = 0
       /\ Graded = {} => stats.averageGrade = 0

\* x (in hundredths) is num / den rounded to the nearest hundredth
Nearest(x, num, den) ==
    /\ 2 * (x * den - 100 * num) <= den
    /\ 2 * (100 * num - x * den) <= den

\* C10 as the specification states it: the counts, completionRate exactly
\* completed / total x 100, averageGrade exactly the mean of the grades of the
\* graded enrollments.
C10_StatsExact ==
    StatsDelivered =>
        LET stats == result.value
        IN /\ C10_Counts
           /\ stats.completionRate * Len(server["enrollments"])
                 = 100 * (100 * Cardinality(WithStatus({COMPLETED})))
           /\ stats.averageGrade * Cardinality(Graded) = 100 * GradeTotal(Graded)

\* C10, amended: totalEnrollments is the number of enrollments, active counts
\* those Enrolled or In Progress, completed and dropped those of that status,
\* so active + completed + dropped <= total; completionRate is
\* completed / total x 100 rounded to two decimals, 0 without enrollments;
\* averageGrade is the mean grade of the graded enrollments rounded to two
\* decimals, 0 when none is graded.
C10_StatsRounded ==
    StatsDelivered =>
        LET stats == result.value
            total == Len(server["enrollments"])
        IN /\ C10_Counts
           /\ total > 0 =>
                 Nearest(stats.completionRate, 100 * Cardinality(WithStatus({COMPLETED})), total)
           /\ Graded # {} =>
                 Nearest(stats.averageGrade, GradeTotal(Graded), Cardinality(Graded))

\* one of three enrollments completed (33.33), two of them graded, one with 0
C10_Witness ==
    /\ StatsDelivered
    /\ result.value.totalEnrollments = 3
    /\ result.value.completedEnrollments = 1
    /\ result.value.completionRate = 3333
    /\ Cardinality(Graded) = 2
    /\ \E i \in Graded : server["enrollments"][i].grade.value = 0

(***************************************************************************)
(* DashboardService: the statistics getDashboardStats computes from the    *)
(* collections its requests delivered. Prices and sums of prices are in    *)
(* thousandths of the currency unit (a price may carry any decimals);      *)
(* the revenues the service rounds are in hundredths, as the averages.     *)
(***************************************************************************)
MaxDashCourses == 2

MaxDashEnrollments == 2

DashCategories == {"Web Development", "Data Science"}

\* 49.99 and 10.004
DashPrices == {49990, 10004}

\* an instant: the month (UTC) it is in and where in the month it lies: at
\* the first midnight (a date-only string of the 1st), in the last hours of
\* the last day, or in between
Instant(month, edge) == [month |-> month, edge |-> edge]

Edges == {"start", "mid", "end"}

DashCourse(id, category, price) ==
    [id |-> id, category |-> category, price |-> price, popularity |-> 10 * id,
     createdAt |-> IsoString(Instant(DefaultClock.month, "mid"))]

\* Enrollment.rating is optional: here the completed enrollments are rated
DashEnrollment(id, courseId, status, when) ==
    [id |-> id, courseId |-> courseId, studentId |-> 1, status |-> status,
     rating |-> IF status = COMPLETED THEN Grade(4) ELSE NoGrade,
     enrollmentDate |-> IsoString(when)]

DashStudent(id, when) == [id |-> id, createdAt |-> IsoString(when)]

\* Date.prototype.getTime, as far as instants are told apart
InstantTime(instant) ==
    3 * instant.month + (CASE instant.edge = "start" -> 0
                           [] instant.edge = "mid" -> 1
                           [] instant.edge = "end" -> 2)

\* the month of an instant on the browser's calendar: west of UTC the first
\* midnight (UTC) of a month is still the month before, east of UTC the last
\* hours of a month are already the next month
LocalMonth(instant, tz) ==
    CASE instant.edge = "start" /\ tz < 0 -> instant.month - 1
      [] instant.edge = "end" /\ tz > 0 -> instant.month + 1
      [] OTHER -> instant.month

\* monthDate.toLocaleString('default', { month: 'short', year: 'numeric' })
MonthName(month) == [year |-> month \div 12, month |-> (month % 12) + 1]

\* courses.find(c => c.id === enrollment.courseId); course ? course.price : 0
priceOf(courses, courseId) ==
    IF Exists(courses, courseId) THEN FindById(courses, courseId).price ELSE 0

\* enrollments.reduce((sum, enrollment) => sum + (course ? course.price : 0), 0)
revenueOf(enrollments, courses) ==
    Sum([i \in 1..Len(enrollments) |-> priceOf(courses, enrollments[i].courseId)])

\* Array.prototype.sort((a, b) => b[field] - a[field]): stable, descending
RECURSIVE InsertDesc(_, _, _)
InsertDesc(sorted, e, field) ==
    IF sorted = <<>> THEN <<e>>
    ELSE IF Head(sorted)[field] >= e[field]
         THEN <<Head(sorted)>> \o InsertDesc(Tail(sorted), e, field)
         ELSE <<e>> \o sorted

RECURSIVE SortDescBy(_, _)
SortDescBy(list, field) ==
    IF list = <<>> THEN <<>>
    ELSE InsertDesc(SortDescBy(SubSeq(list, 1, Len(list) - 1), field),
                    list[Len(list)], field)

\* courses.forEach(course => ...) over categoryMap, a Map in insertion order
RECURSIVE categoryMap(_, _, _)
categoryMap(courses, enrollments, map) ==
    IF courses = <<>> THEN map
    ELSE LET course == Head(courses)
             with == IF \E k \in 1..Len(map) : map[k].category = course.category
                     THEN map
                     ELSE Append(map, [category |-> course.category, courseCount |-> 0,
                                       enrollmentCount |-> 0, revenue |-> 0])
             k == CHOOSE k \in 1..Len(with) : with[k].category = course.category
             courseEnrollments ==
                 SelectSeq(enrollments, LAMBDA e : e.courseId = course.id)
             stats == [with[k] EXCEPT
                          !.courseCount = @ + 1,
                          !.enrollmentCount = @ + Len(courseEnrollments),
                          !.revenue = @ + Len(courseEnrollments) * course.price]
         IN categoryMap(Tail(courses), enrollments, [with EXCEPT ![k] = stats])

calculateCategoryDistributionMutant(courses, enrollments) ==
    LET entries == categoryMap(courses, enrollments, <<>>)
    IN [k \in 1..Len(entries) |->
           [entries[k] EXCEPT !.revenue = Round2(@, 1000)]]

\* Array.from(categoryMap.values()).sort(...).map(stat => ({ ...stat, revenue }))
calculateCategoryDistribution(courses, enrollments) ==
    LET sorted == SortDescBy(categoryMap(courses, enrollments, <<>>), "enrollmentCount")
    IN [k \in 1..Len(sorted) |->
           [sorted[k] EXCEPT !.revenue = Round2(@, 1000)]]

\* for (let i = 5; i >= 0; i--): the month i months before the current one
calculateEnrollmentTrends(enrollments, courses) ==
    [k \in 1..6 |->
        LET monthDate == clock.month - (6 - k)
            nextMonthDate == clock.month - (6 - k) + 1
            monthEnrollments ==
                SelectSeq(enrollments,
                          LAMBDA e : /\ LocalMonth(e.enrollmentDate.iso, clock.tz) >= monthDate
                                     /\ LocalMonth(e.enrollmentDate.iso, clock.tz) < nextMonthDate)
        IN [month |-> MonthName(monthDate),
            enrollments |-> Len(monthEnrollments),
            completions |-> Count(monthEnrollments, {COMPLETED}),
            revenue |-> Round2(revenueOf(monthEnrollments, courses), 1000)]]

\* slice(0, limit)
Slice(list, limit) == SubSeq(list, 1, IF Len(list) < limit THEN Len(list) ELSE limit)

\* CourseService.getPopularCourses
getPopularCourses(courses, limit) == Slice(SortDescBy(courses, "popularity"), limit)

\* the map of getDashboardStats over what forkJoin delivered
getDashboardStatsOf(courses, students, enrollments, popularCourses, recentEnrollments) ==
    [totalCourses |-> Len(courses),
     totalStudents |-> Len(students),
     totalEnrollments |-> Len(enrollments),
     activeEnrollments |-> Count(enrollments, {ENROLLED, IN_PROGRESS}),
     completedEnrollments |-> Count(enrollments, {COMPLETED}),
     totalRevenue |-> Round2(revenueOf(enrollments, courses), 1000),
     averageRating |->
        LET ratedEnrollments == SelectSeq(enrollments, LAMBDA e : e.rating.defined)
        IN IF Len(ratedEnrollments) > 0
           THEN Round2(Sum([i \in 1..Len(ratedEnrollments) |->
                               ratedEnrollments[i].rating.value]),
                       Len(ratedEnrollments))
           ELSE 0,
     newStudentsThisMonth |->
        Len(SelectSeq(students,
                      LAMBDA st : LocalMonth(st.createdAt.iso, clock.tz) >= clock.month)),
     popularCourses |-> [i \in 1..Len(popularCourses) |-> popularCourses[i].id],
     recentEnrollments |-> [i \in 1..Len(recentEnrollments) |-> recentEnrollments[i].id],
     categoryDistribution |-> calculateCategoryDistribution(courses, enrollments),
     enrollmentTrends |-> calculateEnrollmentTrends(enrollments, courses)]

getEmptyDashboardStats ==
    [totalCourses |-> 0, totalStudents |-> 0, totalEnrollments |-> 0,
     activeEnrollments |-> 0, completedEnrollments |-> 0, totalRevenue |-> 0,
     averageRating |-> 0, newStudentsThisMonth |-> 0,
     popularCourses |-> <<>>, recentEnrollments |-> <<>>,
     categoryDistribution |-> <<>>, enrollmentTrends |-> <<>>]

\* EnrollmentService.getRecentEnrollments: the latest first
getRecentEnrollments(details, limit) ==
    Slice(SortDescBy([i \in 1..Len(details) |->
                         [id |-> details[i].id,
                          time |-> InstantTime(details[i].enrollmentDate.iso)]],
                     "time"),
          limit)

\* the collections a dashboard's requests may deliver. One family varies the
\* courses' categories and prices and the courses the enrollments are of ...
CategoryInputs(now) ==
    {[courses |-> [i \in 1..n |-> DashCourse(i, f[i][1], f[i][2])],
      students |-> <<>>,
      enrollments |-> [j \in 1..m |->
                          DashEnrollment(j, g[j], ENROLLED,
                                         Instant(now, "mid"))]] :
        <<n, m, f, g>> \in
            UNION {UNION {{<<n1, m1, f1, g1>> :
                              f1 \in [1..n1 -> DashCategories \X DashPrices],
                              g1 \in [1..m1 -> 1..(MaxDashCourses + 1)]} :
                          m1 \in 0..MaxDashEnrollments} :
                   n1 \in 0..MaxDashCourses}}

\* ... the other the enrollments' dates around the clock's month, with one
\* course that exists (1) and one that does not (2)
TrendSamples(now) ==
    {<<1, ENROLLED, Instant(now, "start")>>,
     <<1, COMPLETED, Instant(now, "mid")>>,
     <<1, ENROLLED, Instant(now, "end")>>,
     <<2, ENROLLED, Instant(now - 1, "mid")>>,
     <<1, ENROLLED, Instant(now - 3, "mid")>>,
     <<1, COMPLETED, Instant(now - 5, "start")>>,
     <<1, ENROLLED, Instant(now - 6, "end")>>,
     <<1, ENROLLED, Instant(now - 6, "mid")>>,
     <<1, COMPLETED, Instant(now + 1, "start")>>}

TrendInputs(now) ==
    {[courses |-> <<DashCourse(1, "Web Development", 10004)>>,
      students |-> <<DashStudent(1, Instant(now, "start"))>>,
      enrollments |-> [j \in 1..m |-> DashEnrollment(j, g[j][1], g[j][2], g[j][3])]] :
        <<m, g>> \in UNION {{<<m1, g1>> : g1 \in [1..m1 -> TrendSamples(now)]} :
                             m1 \in 0..MaxDashEnrollments}}

\* November 2026, and March 2026 (its six months begin in 2025)
Clocks == {[month |-> m, tz |-> tz] : m \in {12 * 2026 + 10, 12 * 2026 + 2},
                                      tz \in {-1, 0, 1}}

InitDash ==
    /\ IdleApp
    /\ \/ clock = DefaultClock /\ server \in CategoryInputs(clock.month)
       \/ clock \in Clocks /\ server \in TrendInputs(clock.month)

\* forkJoin has delivered the six collections: the map computes the statistics
dashboardStatsMap ==
    /\ call = NoCall
    /\ call' = [name |-> "getDashboardStats", failed |-> {}]
    /\ LET courses == TransformAll("courses", server["courses"])
           students == TransformAll("students", server["students"])
           enrollments == TransformAll("enrollments", server["enrollments"])
       IN result' = [state |-> "ok", message |-> "",
                     value |-> getDashboardStatsOf(courses, students, enrollments,
                                                   getPopularCourses(courses, 5),
                                                   getRecentEnrollments(enrollments, 5))]
    /\ UNCHANGED <<authVars, svcVars, dashboard, clock>>

NextDash == dashboardStatsMap

SpecDash == InitDash /\ [][NextDash]_vars

(***************************************************************************)
(* Claims about the dashboard's statistics (SpecDash)                      *)
(***************************************************************************)
StatsMapped == call.name = "getDashboardStats" /\ result.state = "ok"

CategoriesOf(courses) == {courses[i].category : i \in 1..Len(courses)}

\* the enrollments whose courseId is a course of the category
EnrollmentsIn(category) ==
    {j \in 1..Len(server["enrollments"]) :
        \E i \in 1..Len(server["courses"]) :
            /\ server["courses"][i].id = server["enrollments"][j].courseId
            /\ server["courses"][i].category = category}

RECURSIVE PriceTotal(_)
PriceTotal(J) ==
    IF J = {} THEN 0
    ELSE LET j == CHOOSE x \in J : TRUE
         IN priceOf(server["courses"], server["enrollments"][j].courseId)
            + PriceTotal(J \ {j})

\* one entry per category, the course counts, the enrollment counts, the order
C11_Entries ==
    LET dist == result.value.categoryDistribution
    IN /\ Len(dist) = Cardinality(CategoriesOf(server["courses"]))
       /\ {dist[k].category : k \in 1..Len(dist)} = CategoriesOf(server["courses"])
       /\ Sum([k \in 1..Len(dist) |-> dist[k].courseCount]) = Len(server["courses"])
       /\ \A k \in 1..Len(dist) :
             dist[k].enrollmentCount = Cardinality(EnrollmentsIn(dist[k].category))
       /\ \A k \in 1..(Len(dist) - 1) :
             dist[k].enrollmentCount >= dist[k + 1].enrollmentCount

\* C11 as the specification states it: one entry per distinct category,
\* courseCounts summing to the number of courses, each enrollmentCount the
\* number of enrollments of the category's courses, entries by non-increasing
\* enrollmentCount, and the entries' revenues summing to totalRevenue.
C11_CategoryDistribution ==
    StatsMapped =>
        LET dist == result.value.categoryDistribution
        IN /\ C11_Entries
           /\ Sum([k \in 1..Len(dist) |-> dist[k].revenue]) = result.value.totalRevenue

\* C11, amended: one entry per distinct category, courseCounts summing to the
\* number of courses, each enrollmentCount the number of enrollments of the
\* category's courses, entries by non-increasing enrollmentCount; each entry's
\* revenue is its category's revenue rounded to two decimals and totalRevenue
\* the whole revenue rounded to two decimals, so the entries' revenues sum to
\* totalRevenue when no price has more than two decimals.
C11_CategoryDistributionRounded ==
    StatsMapped =>
        LET dist == result.value.categoryDistribution
            all == 1..Len(server["enrollments"])
        IN /\ C11_Entries
           /\ \A k \in 1..Len(dist) :
                 Nearest(dist[k].revenue, PriceTotal(EnrollmentsIn(dist[k].category)), 1000)
           /\ Nearest(result.value.totalRevenue, PriceTotal(all), 1000)
           /\ (\A i \in 1..Len(server["courses"]) : server["courses"][i].price % 10 = 0) =>
                 Sum([k \in 1..Len(dist) |-> dist[k].revenue]) = result.value.totalRevenue

\* two categories, the one met second with both enrollments and so first,
\* revenues in whole cents that sum to the total
C11_Witness ==
    /\ StatsMapped
    /\ Len(result.value.categoryDistribution) = 2
    /\ Len(server["courses"]) = 2
    /\ result.value.categoryDistribution[1].category # server["courses"][1].category
    /\ result.value.categoryDistribution[1].enrollmentCount = 2
    /\ result.value.totalRevenue = 9998
    /\ result.value.categoryDistribution[1].revenue = 9998

\* the calendar month an enrollmentDate is in: a date-only string names its
\* day whatever the time zone; a timestamp is read on the browser's calendar
WrittenMonth(instant) ==
    IF instant.edge = "start" THEN instant.month ELSE LocalMonth(instant, clock.tz)

\* the month of the k-th entry: five months before the current month first
TrendMonth(k) == clock.month - (6 - k)

EnrolledIn(month) ==
    {j \in 1..Len(server["enrollments"]) :
        WrittenMonth(server["enrollments"][j].enrollmentDate.iso) = month}

\* C12: calculateEnrollmentTrends returns six entries, one per calendar month
\* from five months before the current month through the current month, in
\* that order; an enrollment is counted in the entry of the month containing
\* its enrollmentDate and in no other; in each entry completions <=
\* enrollments and revenue is the sum (to two decimals) of the prices of the
\* existing courses of that month's enrollments.
C12_EnrollmentTrends ==
    StatsMapped =>
        LET trends == result.value.enrollmentTrends
        IN /\ Len(trends) = 6
           /\ \A k \in 1..6 :
                 /\ trends[k].month = MonthName(TrendMonth(k))
                 /\ trends[k].enrollments = Cardinality(EnrolledIn(TrendMonth(k)))
                 /\ trends[k].completions <= trends[k].enrollments
                 /\ Nearest(trends[k].revenue, PriceTotal(EnrolledIn(TrendMonth(k))), 1000)

(***************************************************************************)
(* Loading the dashboard: DashboardComponent.loadDashboardData subscribes  *)
(* to DashboardService.getDashboardStats                                   *)
(***************************************************************************)
\* the six observables getDashboardStats joins
DashSources == {"courses", "students", "enrollments", "enrollmentStats",
                "popularCourses", "recentEnrollments"}

\* getRecentEnrollments is getAllEnrollmentsWithDetails, which fails with 404
\* when an enrollment's course or student cannot be fetched
DanglingSources ==
    IF \E j \in 1..Len(server["enrollments"]) :
           \/ ~Exists(server["courses"], server["enrollments"][j].courseId)
           \/ ~Exists(server["students"], server["enrollments"][j].studentId)
    THEN {"recentEnrollments"} ELSE {}

\* a catchError that lets the error through
dashboardCatchErrorMutant(failures, stats) ==
    IF failures = {}
    THEN [state |-> "ok", value |-> stats, message |-> ""]
    ELSE [state |-> "error", value |-> <<>>, message |-> "Http failure response"]

\* what the pipe of getDashboardStats emits: forkJoin errors as soon as one
\* source errors, and catchError replaces the error by the empty statistics
dashboardCatchError(failures, stats) ==
    IF failures = {}
    THEN [state |-> "ok", value |-> stats, message |-> ""]
    ELSE [state |-> "ok", value |-> getEmptyDashboardStats, message |-> ""]

InitLoad ==
    /\ IdleSession
    /\ server \in TrendInputs(DefaultClock.month)

\* ngOnInit and refreshDashboard: isLoading = true, then subscribe
loadDashboardData ==
    /\ result.state \in {"none", "done"}
    /\ dashboard' = [dashboard EXCEPT !.isLoading = TRUE]
    /\ call' = [name |-> "getDashboardStats", failed |-> {}]
    /\ result' = [state |-> "pending", value |-> <<>>, message |-> ""]
    /\ UNCHANGED <<authVars, svcVars, clock>>

\* the responses have arrived, the sources in `failed` with an error
getDashboardStats ==
    /\ call.name = "getDashboardStats"
    /\ result.state = "pending"
    /\ \E failed \in SUBSET DashSources :
          LET failures == failed \union DanglingSources
              courses == TransformAll("courses", server["courses"])
              students == TransformAll("students", server["students"])
              enrollments == TransformAll("enrollments", server["enrollments"])
          IN /\ call' = [call EXCEPT !.failed = failures]
             /\ result' = dashboardCatchError(
                              failures,
                              getDashboardStatsOf(courses, students, enrollments,
                                                  getPopularCourses(courses, 5),
                                                  getRecentEnrollments(enrollments, 5)))
    /\ UNCHANGED <<authVars, svcVars, dashboard, clock>>

\* the subscriber of loadDashboardData: next stores the statistics, error
\* only logs; both end with isLoading = false
loadSubscriber ==
    /\ call.name = "getDashboardStats"
    /\ result.state \in {"ok", "error"}
    /\ dashboard' = [dashboard EXCEPT
                        !.isLoading = FALSE,
                        !.dashboardStats = IF result.state = "ok" THEN TRUE
                                           ELSE dashboard.dashboardStats]
    /\ result' = [result EXCEPT !.state = "done"]
    /\ UNCHANGED <<authVars, svcVars, call, clock>>

NextLoad ==
    \/ loadDashboardData
    \/ getDashboardStats
    \/ loadSubscriber

SpecLoad == InitLoad /\ [][NextLoad]_vars

(***************************************************************************)
(* Claims about loading the dashboard (SpecLoad)                           *)
(***************************************************************************)
StatCounters == {"totalCourses", "totalStudents", "totalEnrollments",
                 "activeEnrollments", "completedEnrollments", "totalRevenue",
                 "averageRating", "newStudentsThisMonth"}

StatLists == {"popularCourses", "recentEnrollments", "categoryDistribution",
              "enrollmentTrends"}

IsEmptyStats(stats) ==
    /\ \A f \in StatCounters : stats[f] = 0
    /\ \A f \in StatLists : stats[f] = <<>>

C13_Step ==
    /\ (result.state = "pending" /\ result'.state # "pending") =>
          /\ result'.state = "ok"
          /\ call'.failed # {} => IsEmptyStats(result'.value)
    /\ (result.state \in {"ok", "error"} /\ result'.state = "done") =>
          ~dashboard'.isLoading

\* C13: when a request feeding getDashboardStats fails, getDashboardStats
\* does not error but emits the empty statistics (every counter 0, every
\* list empty), and once the subscriber of loadDashboardData has handled the
\* outcome of a load, failed or not, isLoading is false.
C13_LoadNeverErrors ==
    /\ [][C13_Step]_vars
    /\ [](result.state # "error")
    /\ [](result.state = "done" => ~dashboard.isLoading)

C13_Witness ==
    /\ call.name = "getDashboardStats"
    /\ "students" \in call.failed
    /\ result.state = "done"
    /\ IsEmptyStats(result.value)
    /\ server["enrollments"] # <<>>
    /\ ~dashboard.isLoading
    /\ dashboard.dashboardStats

(***************************************************************************)
(* The error interceptor, in a session with the router                     *)
(***************************************************************************)
\* an HttpErrorResponse: its status, and whether error.error is an ErrorEvent
\* (a client-side error, which carries status 0)
HttpErrors ==
    {[status |-> s, clientSide |-> FALSE] : s \in {0, 400, 401, 403, 404, 500, 503}}
        \union {[status |-> 0, clientSide |-> TRUE]}

\* an interceptor that sends every refused request to /login
errorInterceptorOfMutant(error) ==
    [message |-> "An error occurred",
     navigate |-> IF error.status \in {401, 403} THEN "/login" ELSE "",
     thrown |-> error]

\* the catchError of errorInterceptor: the message for the snack bar, the
\* URL it asks the router for ("" for none) and the error it throws
errorInterceptorOf(error) ==
    [message |->
        CASE error.clientSide -> "Error: "
          [] ~error.clientSide /\ error.status = 400 -> "Bad Request: Invalid request"
          [] ~error.clientSide /\ error.status = 401 -> "Unauthorized: Please log in"
          [] ~error.clientSide /\ error.status = 403 ->
                "Forbidden: You do not have permission"
          [] ~error.clientSide /\ error.status = 404 -> "Not Found: Resource not found"
          [] ~error.clientSide /\ error.status = 500 ->
                "Server Error: Please try again later"
          [] OTHER -> "Error status: message",
     navigate |->
        CASE ~error.clientSide /\ error.status = 401 -> "/login"
          [] ~error.clientSide /\ error.status = 403 -> "/unauthorized"
          [] OTHER -> "",
     thrown |-> error]

\* a request of the application fails with the error: the interceptor opens
\* the snack bar, navigates and rethrows
errorInterceptor(error) ==
    /\ call.name = ""
    /\ LET out == errorInterceptorOf(error)
           n == RouterNavigate(out.navigate, currentUser, FALSE)
       IN /\ call' = [name |-> "errorInterceptor", failed |-> {error}]
          /\ result' = [state |-> "error", value |-> out.thrown, message |-> out.message]
          /\ IF out.navigate = ""
             THEN UNCHANGED <<url, redirectUrl, lastNav>>
             ELSE /\ url' = n.url
                  /\ redirectUrl' = n.redirectUrl
                  /\ lastNav' = n.nav
    /\ UNCHANGED <<currentUser, loginTimers, svcVars, dashboard, clock>>

\* the caller's error handler has received the rethrown error
callerError ==
    /\ call.name = "errorInterceptor"
    /\ call' = NoCall
    /\ result' = NoResult
    /\ UNCHANGED <<authVars, svcVars, dashboard, clock>>

NextHttpError ==
    \/ NextAuth
    \/ \E error \in HttpErrors : errorInterceptor(error)
    \/ callerError

SpecHttpError == InitAuth /\ [][NextHttpError]_vars

(***************************************************************************)
(* Claims about the error interceptor (SpecHttpError)                      *)
(***************************************************************************)
C14_Step ==
    (call.name = "" /\ call'.name = "errorInterceptor") =>
        \E error \in call'.failed :
            /\ call'.failed = {error}
            /\ result'.state = "error"
            /\ result'.value = error
            /\ result'.message # ""
            /\ CASE ~error.clientSide /\ error.status = 401 ->
                        url' = "/login" /\ lastNav'.attempted = "/login"
                 [] ~error.clientSide /\ error.status = 403 ->
                        url' = "/unauthorized" /\ lastNav'.attempted = "/unauthorized"
                 [] OTHER -> url' = url /\ lastNav' = lastNav

\* C14: for every failed HTTP response the error interceptor shows a message
\* and rethrows the original error; it navigates to /login exactly when the
\* status is 401, to /unauthorized exactly when it is 403, and not at all
\* for any other status or a client-side error.
C14_InterceptorRethrows == [][C14_Step]_vars

C14_Witness ==
    /\ call.name = "errorInterceptor"
    /\ call.failed = {[status |-> 403, clientSide |-> FALSE]}
    /\ result.value.status = 403
    /\ url = "/unauthorized"
    /\ lastNav.attempted = "/unauthorized"
    /\ currentUser # NullUser

(***************************************************************************)
(* Claims about the redirect after login (SpecAuth)                        *)
(***************************************************************************)
\* the step in which a login succeeds: its timer fires and the user is stored
LoginSucceeds ==
    \E n \in loginTimers : loginTimers' = loginTimers \ {n} /\ currentUser' = mockUser(n)

\* C15: when a login succeeds the application navigates to
\* AuthService.redirectUrl, the URL authGuard stored when it denied a
\* navigation (and /dashboard when it denied none).
C15_Step == LoginSucceeds => lastNav'.attempted = redirectUrl

C15_RedirectAfterLogin == [][C15_Step]_vars

(***************************************************************************)
(* Claims about optimistic updates (Spec)                                  *)
(***************************************************************************)
\* the service's cached collection already shows the effect of the request
Reflects(req) ==
    LET list == cache[req.svc]
    IN CASE req.verb = "DELETE" -> ~Exists(list, req.id)
         [] req.verb = "POST" ->
               \E i \in 1..Len(list) :
                   list[i] = Transform(req.svc, Replace(list[i].id, req.body))
         [] req.verb = "PUT" ->
               Exists(list, req.id) =>
                   list[findIndex(list, req.id)] =
                       Transform(req.svc, Replace(req.id, req.body))
         [] req.verb = "PATCH" ->
               Exists(list, req.id) =>
                   LET e == list[findIndex(list, req.id)]
                   IN e = Transform(req.svc, Merge(e, req.body))

\* C16: while a create, update or delete issued through a service awaits the
\* server's response, the service's cached collection already reflects it.
C16_OptimisticUpdates ==
    \A req \in http :
        (req.resp = Pending /\ req.verb \in Mutations /\ req.from \in {"caller", "form"})
            => Reflects(req)

(***************************************************************************)
(* The dashboard's charts: loads, the 100 ms chart timer, refresh and      *)
(* destruction of DashboardComponent                                       *)
(***************************************************************************)
\* loadDashboardData calls made in one life of the component
MaxLoads == 3

InitCharts ==
    /\ IdleSession
    /\ server = EmptyCollections

\* destroyCharts: destroy() and null every chart field that is set
destroyCharts(d) ==
    [d EXCEPT !.live = {c \in d.live : d.charts[c.canvas] # c.id},
              !.charts = [f \in ChartFields |-> 0]]

\* loadDashboardData: isLoading = true and one more subscription
loadData(d) ==
    [d EXCEPT !.isLoading = TRUE, !.loads = d.loads + 1, !.issued = d.issued + 1]

ngOnInit ==
    /\ dashboard.phase = "constructed"
    /\ dashboard' = [loadData(dashboard) EXCEPT !.phase = "active"]
    /\ UNCHANGED <<authVars, svcVars, call, result, clock>>

refreshDashboard ==
    /\ dashboard.phase = "active"
    /\ dashboard.issued < MaxLoads
    /\ dashboard' = loadData(destroyCharts(dashboard))
    /\ UNCHANGED <<authVars, svcVars, call, result, clock>>

\* the next handler of a subscription (nothing unsubscribes it, also not
\* ngOnDestroy): store the statistics, isLoading = false, start the timer
loadNext ==
    /\ dashboard.loads > 0
    /\ dashboard' = [dashboard EXCEPT !.loads = dashboard.loads - 1,
                                      !.dashboardStats = TRUE,
                                      !.isLoading = FALSE,
                                      !.timers = dashboard.timers + 1]
    /\ UNCHANGED <<authVars, svcVars, call, result, clock>>

\* a timer fires. The canvases are the template's: whether the ViewChild
\* references are set is left open. new Chart on a canvas that has a live
\* chart throws (Chart.js 4), which ends createCharts at its first chart.
createCharts ==
    /\ dashboard.timers > 0
    /\ \E rendered \in BOOLEAN :
          LET d == [dashboard EXCEPT !.timers = dashboard.timers - 1]
              id == d.created + 1
              inUse == \E c \in d.live : c.canvas = "categoryChart"
          IN dashboard' =
                IF ~d.dashboardStats \/ ~rendered \/ inUse
                THEN d
                ELSE [d EXCEPT !.created = id,
                               !.charts = [f \in ChartFields |-> id],
                               !.live = d.live \union
                                        {[canvas |-> f, id |-> id] : f \in ChartFields}]
    /\ UNCHANGED <<authVars, svcVars, call, result, clock>>

ngOnDestroy ==
    /\ dashboard.phase = "active"
    /\ dashboard' = [destroyCharts(dashboard) EXCEPT !.phase = "destroyed"]
    /\ UNCHANGED <<authVars, svcVars, call, result, clock>>

NextCharts ==
    \/ ngOnInit
    \/ refreshDashboard
    \/ loadNext
    \/ createCharts
    \/ ngOnDestroy

SpecCharts == InitCharts /\ [][NextCharts]_vars

(***************************************************************************)
(* Claims about the charts (SpecCharts)                                    *)
(***************************************************************************)
\* C17: chart instances are cleaned up: no live chart remains once
\* ngOnDestroy has run, no canvas ever carries two live charts, and every
\* live chart is held by the component's field for its canvas, so that
\* destroyCharts will destroy it.
C17_ChartsCleanedUp ==
    /\ dashboard.phase = "destroyed" => dashboard.live = {}
    /\ \A c1, c2 \in dashboard.live : c1.canvas = c2.canvas => c1 = c2
    /\ \A c \in dashboard.live : dashboard.charts[c.canvas] = c.id

(***************************************************************************)
(* EnrollmentListComponent: the filters of the enrollment table            *)
(***************************************************************************)
\* JavaScript values compared with ===: a number and the string of its
\* digits are different values
Num(n) == [kind |-> "number", text |-> <<n>>]

\* Number.prototype.toString (the ids here have one digit)
toString(n) == [kind |-> "string", text |-> <<n>>]

EmptyString == [kind |-> "string", text |-> <<>>]

\* an EnrollmentWithDetails as Enrollment declares it: numeric ids; the date
\* is a day number
FilterEnrollment(id, courseId, studentId, status, day) ==
    [id |-> id, courseId |-> courseId, studentId |-> studentId, status |-> status,
     enrollmentDate |-> day, courseName |-> "Course", studentName |-> "Student"]

\* two courses, two students; enrolled on day 1 or completed, enrolled on day 3
FilterSamples ==
    {<<c, st, when[1], when[2]>> : c \in 1..2, st \in 1..2,
                                   when \in {<<ENROLLED, 1>>, <<COMPLETED, 3>>}}

FilterLists ==
    UNION {{[i \in 1..n |-> FilterEnrollment(i, f[i][1], f[i][2], f[i][3], f[i][4])] :
               f \in [1..n -> FilterSamples]} : n \in 0..MaxJoinLen}

InitFilter ==
    /\ IdleSession
    /\ \E es \in FilterLists : server = [EmptyCollections EXCEPT !["enrollments"] = es]

\* extractFilterOptions: the ids of the dropdowns' options, as strings
extractFilterOptions(enrollments, key) ==
    {toString(enrollments[i][key]) :
        i \in {j \in 1..Len(enrollments) :
                  IF key = "courseId" THEN enrollments[j].courseName # ""
                  ELSE enrollments[j].studentName # ""}}

\* createFilter's predicate (the search term is left empty); 0 is a null date
createFilter(data, searchTerms) ==
    /\ searchTerms.status = "" \/ data.status = searchTerms.status
    /\ searchTerms.course = EmptyString \/ Num(data.courseId) = searchTerms.course
    /\ searchTerms.student = EmptyString \/ Num(data.studentId) = searchTerms.student
    /\ searchTerms.startDate = 0 \/ ~(data.enrollmentDate < searchTerms.startDate)
    /\ searchTerms.endDate = 0 \/ ~(data.enrollmentDate > searchTerms.endDate)

NoFilter == [status |-> "", course |-> EmptyString, student |-> EmptyString,
             startDate |-> 0, endDate |-> 0]

\* MatTableDataSource: an empty filter string shows every row, any other
\* string the rows the predicate accepts
filteredData(data, filter) ==
    IF filter = EmptyString THEN data
    ELSE SelectSeq(data, LAMBDA e : createFilter(e, filter))

\* the user sets the filter fields (the dropdowns offer the extracted
\* options) and applyFilters writes them to dataSource.filter
applyFilters ==
    /\ \E status \in {"", ENROLLED, COMPLETED},
          course \in {EmptyString} \union
                     extractFilterOptions(server["enrollments"], "courseId"),
          student \in {EmptyString} \union
                      extractFilterOptions(server["enrollments"], "studentId"),
          startDate \in {0, 2}, endDate \in {0, 2} :
          LET filter == [status |-> status, course |-> course, student |-> student,
                         startDate |-> startDate, endDate |-> endDate]
          IN /\ call' = [name |-> "applyFilters", failed |-> {}]
             /\ result' = [state |-> "ok", message |-> "",
                           value |-> [selected |-> filter,
                                      filteredData |->
                                          filteredData(server["enrollments"], filter)]]
    /\ UNCHANGED <<authVars, svcVars, dashboard, clock>>

clearFilters ==
    /\ call' = [name |-> "clearFilters", failed |-> {}]
    /\ result' = [state |-> "ok", message |-> "",
                  value |-> [selected |-> NoFilter,
                             filteredData |->
                                 filteredData(server["enrollments"], EmptyString)]]
    /\ UNCHANGED <<authVars, svcVars, dashboard, clock>>

NextFilter ==
    \/ applyFilters
    \/ clearFilters

SpecFilter == InitFilter /\ [][NextFilter]_vars

(***************************************************************************)
(* Claims about the enrollment list's filters (SpecFilter)                 *)
(***************************************************************************)
\* the enrollment passes the selected filters, the chosen course and student
\* being those whose id the option shows
Selected(e, selected) ==
    /\ selected.status = "" \/ e.status = selected.status
    /\ selected.course = EmptyString \/ selected.course.text = <<e.courseId>>
    /\ selected.student = EmptyString \/ selected.student.text = <<e.studentId>>
    /\ selected.startDate = 0 \/ e.enrollmentDate >= selected.startDate
    /\ selected.endDate = 0 \/ e.enrollmentDate <= selected.endDate

\* C18: after applyFilters the table shows exactly the enrollments whose
\* courseId / studentId is the id of the chosen option and that pass the
\* status and date-range filters; with no filter set, and after
\* clearFilters, it shows every enrollment.
C18_Filters ==
    call.name \in {"applyFilters", "clearFilters"} =>
        /\ result.value.filteredData =
               SelectSeq(server["enrollments"],
                         LAMBDA e : Selected(e, result.value.selected))
        /\ result.value.selected = NoFilter =>
               result.value.filteredData = server["enrollments"]

(***************************************************************************)
(* StudentService.enrollInCourse / unenrollFromCourse against the backend  *)
(***************************************************************************)
\* the students the backend may hold: student 1 with any of these course
\* lists, alone or followed by student 2
EnrollStudentLists ==
    {<<Student(1, "Active", ec)>> : ec \in {<<>>, <<1>>, <<2>>, <<1, 2>>, <<2, 1>>}}
        \union {<<Student(1, "Active", ec1), Student(2, "Active", ec2)>> :
                   ec1 \in {<<>>, <<1>>, <<1, 2>>}, ec2 \in {<<>>, <<2>>}}

InitEnroll ==
    /\ IdleSession
    /\ \E ss \in EnrollStudentLists : server = [EmptyCollections EXCEPT !["students"] = ss]

includes(list, x) == \E i \in 1..Len(list) : list[i] = x

\* enrollInCourse: getStudentById, then the map pushes courseId onto the
\* fetched student's list unless it is there; nothing is sent but the GET
enrollInCourse(studentId, courseId, failed, message) ==
    /\ call' = [name |-> "enrollInCourse", failed |-> failed,
                studentId |-> studentId, courseId |-> courseId]
    /\ LET got == getById("students", studentId, failed, message)
           student == got.entity
       IN result' =
             IF got.state = "error"
             THEN [state |-> "error", value |-> <<>>,
                   message |-> handleError(Failed(got.message))]
             ELSE [state |-> "ok", message |-> "",
                   value |-> IF includes(student.enrolledCourses, courseId)
                             THEN student
                             ELSE [student EXCEPT
                                      !.enrolledCourses = Append(@, courseId)]]
    /\ UNCHANGED <<authVars, svcVars, dashboard, clock>>

\* unenrollFromCourse: getStudentById, then the map filters the fetched list
unenrollFromCourse(studentId, courseId, failed, message) ==
    /\ call' = [name |-> "unenrollFromCourse", failed |-> failed,
                studentId |-> studentId, courseId |-> courseId]
    /\ LET got == getById("students", studentId, failed, message)
           student == got.entity
       IN result' =
             IF got.state = "error"
             THEN [state |-> "error", value |-> <<>>,
                   message |-> handleError(Failed(got.message))]
             ELSE [state |-> "ok", message |-> "",
                   value |-> [student EXCEPT
                                 !.enrolledCourses =
                                     SelectSeq(@, LAMBDA id : id # courseId)]]
    /\ UNCHANGED <<authVars, svcVars, dashboard, clock>>

NextEnroll ==
    \E studentId \in 1..2, courseId \in 1..2,
       failed \in SUBSET {Get("students", 1)}, message \in TransportErrors :
        /\ (failed = {} => message = "")
        /\ \/ enrollInCourse(studentId, courseId, failed, message)
           \/ unenrollFromCourse(studentId, courseId, failed, message)

SpecEnroll == InitEnroll /\ [][NextEnroll]_vars

(***************************************************************************)
(* Claims about enrollInCourse (SpecEnroll)                                *)
(***************************************************************************)
\* C19: once enrollInCourse(studentId, courseId) has succeeded the stored
\* student record lists courseId, exactly once if it was listed at most once
\* before; once unenrollFromCourse has succeeded the stored record does not
\* list courseId.
C19_EnrollUpdatesRecord ==
    (call.name \in {"enrollInCourse", "unenrollFromCourse"} /\ result.state = "ok") =>
        LET stored == FindById(server["students"], call.studentId).enrolledCourses
            at == {i \in 1..Len(stored) : stored[i] = call.courseId}
        IN IF call.name = "enrollInCourse"
           THEN Cardinality(at) = 1
           ELSE at = {}

(***************************************************************************)
(* EnrollmentService.updateProgress against the backend                    *)
(***************************************************************************)
\* an enrollment with the fields updateProgress may write; Undefined marks an
\* optional field that is absent
ProgressEnrollment(id, status, progress, completionDate) ==
    [id |-> id, courseId |-> 1, studentId |-> 1, status |-> status,
     progress |-> progress, enrollmentDate |-> IsoString("2026-10-01"),
     completionDate |-> completionDate, lastAccessedDate |-> Undefined]

ProgressValues == {0, 1, 50, 99, 100}

InitProgress ==
    /\ IdleApp
    /\ clock = DefaultClock
    /\ \E status \in {ENROLLED, IN_PROGRESS, COMPLETED, DROPPED},
          progress \in {0, 50, 100},
          completionDate \in {Undefined, IsoString("2026-10-15")} :
          server = [EmptyCollections EXCEPT
                       !["enrollments"] =
                           <<ProgressEnrollment(1, status, progress, completionDate)>>]

\* an auto-update that also fires for progress 0
updateProgressOfMutant(progress) ==
    LET updates == [progress |-> progress, lastAccessedDate |-> IsoString(Today)]
    IN IF progress = 100
       THEN Spread(updates, [status |-> COMPLETED, completionDate |-> IsoString(Today)])
       ELSE IF progress >= 0
            THEN Spread(updates, [status |-> IN_PROGRESS])
            ELSE updates

\* the updates updateProgress builds: new Date().toISOString() is today
updateProgressOf(progress) ==
    LET updates == [progress |-> progress, lastAccessedDate |-> IsoString(Today)]
    IN IF progress = 100
       THEN Spread(updates, [status |-> COMPLETED, completionDate |-> IsoString(Today)])
       ELSE IF progress > 0
            THEN Spread(updates, [status |-> IN_PROGRESS])
            ELSE updates

\* updateProgress: patchEnrollment sends the updates, the backend merges
\* them into the stored enrollment (404 for an unknown id), and the response
\* updates the cache and reaches the caller transformed
updateProgress(enrollmentId, progress) ==
    LET updates == updateProgressOf(progress)
        req == Request("enrollments", "PATCH", enrollmentId, updates, "caller", NoCtx)
        served == Served(req, server["enrollments"], nextId["enrollments"])
    IN /\ call' = [name |-> "updateProgress", failed |-> {},
                   enrollmentId |-> enrollmentId, progress |-> progress,
                   updates |-> updates, before |-> server["enrollments"]]
       /\ server' = [server EXCEPT !["enrollments"] = served.list]
       /\ IF served.resp.state = "ok"
          THEN /\ cache' = [cache EXCEPT
                               !["enrollments"] =
                                   cacheAfterUpdate("enrollments", @, enrollmentId,
                                                    served.resp.entity)]
               /\ result' = [state |-> "ok", message |-> "",
                             value |-> transformEnrollment(served.resp.entity)]
          ELSE /\ cache' = cache
               /\ result' = [state |-> "error", value |-> <<>>,
                             message |-> handleError(served.resp)]
       /\ UNCHANGED <<authVars, nextId, http, lastOp, ops, deletedCourses, form,
                      dashboard, clock>>

NextProgress ==
    \E enrollmentId \in 1..2, progress \in ProgressValues :
        updateProgress(enrollmentId, progress)

SpecProgress == InitProgress /\ [][NextProgress]_vars

(***************************************************************************)
(* Claims about updateProgress (SpecProgress)                              *)
(***************************************************************************)
\* C20: updateProgress always sets progress and lastAccessedDate; with
\* progress 100 it also sets status Completed and a completionDate, with
\* 0 < progress < 100 status In Progress and no completionDate, with progress
\* 0 neither; the stored enrollment changes in these fields and no other.
C20_UpdateProgress ==
    call.name = "updateProgress" =>
        LET updates == call.updates
            progress == call.progress
        IN /\ updates.progress = progress
           /\ updates.lastAccessedDate = IsoString(Today)
           /\ progress = 100 =>
                 /\ DOMAIN updates = {"progress", "lastAccessedDate", "status",
                                      "completionDate"}
                 /\ updates.status = COMPLETED
                 /\ updates.completionDate = IsoString(Today)
           /\ (0 < progress /\ progress < 100) =>
                 /\ DOMAIN updates = {"progress", "lastAccessedDate", "status"}
                 /\ updates.status = IN_PROGRESS
           /\ progress = 0 => DOMAIN updates = {"progress", "lastAccessedDate"}
           /\ result.state = "ok" =>
                 /\ Len(server["enrollments"]) = Len(call.before)
                 /\ \A i \in 1..Len(call.before) :
                       \A f \in DOMAIN call.before[i] :
                           server["enrollments"][i][f] =
                               IF call.before[i].id = call.enrollmentId
                                  /\ f \in DOMAIN updates
                               THEN updates[f]
                               ELSE call.before[i][f]
           /\ result.state = "error" => server["enrollments"] = call.before

\* a dropped enrollment at 50 % was set to 0: only progress and
\* lastAccessedDate changed
C20_Witness ==
    /\ call.name = "updateProgress"
    /\ call.progress = 0
    /\ result.state = "ok"
    /\ call.before[1].progress = 50
    /\ server["enrollments"][1].status = DROPPED
    /\ server["enrollments"][1].progress = 0
    /\ server["enrollments"][1].lastAccessedDate = IsoString(Today)

(***************************************************************************)
(* The life of one enrollment: createEnrollment, then updateProgress and   *)
(* updateStatus                                                            *)
(***************************************************************************)
\* the backend after createEnrollment: status Enrolled, progress 0, no
\* completionDate
InitLifecycle ==
    /\ IdleSession
    /\ server = [EmptyCollections EXCEPT
                    !["enrollments"] = <<ProgressEnrollment(1, ENROLLED, 0, Undefined)>>]

\* the updates updateStatus builds
updateStatusOf(status) ==
    IF status = COMPLETED
    THEN [status |-> status, completionDate |-> IsoString(Today), progress |-> 100]
    ELSE [status |-> status]

\* updateStatus: patchEnrollment sends the updates, the backend merges them,
\* the response updates the cache and reaches the caller transformed
updateStatus(enrollmentId, status) ==
    LET updates == updateStatusOf(status)
        req == Request("enrollments", "PATCH", enrollmentId, updates, "caller", NoCtx)
        served == Served(req, server["enrollments"], nextId["enrollments"])
    IN /\ call' = [name |-> "updateStatus", failed |-> {},
                   enrollmentId |-> enrollmentId, status |-> status,
                   updates |-> updates, before |-> server["enrollments"]]
       /\ server' = [server EXCEPT !["enrollments"] = served.list]
       /\ IF served.resp.state = "ok"
          THEN /\ cache' = [cache EXCEPT
                               !["enrollments"] =
                                   cacheAfterUpdate("enrollments", @, enrollmentId,
                                                    served.resp.entity)]
               /\ result' = [state |-> "ok", message |-> "",
                             value |-> transformEnrollment(served.resp.entity)]
          ELSE /\ cache' = cache
               /\ result' = [state |-> "error", value |-> <<>>,
                             message |-> handleError(served.resp)]
       /\ UNCHANGED <<authVars, nextId, http, lastOp, ops, deletedCourses, form,
                      dashboard, clock>>

NextLifecycle ==
    \/ \E progress \in ProgressValues : updateProgress(1, progress)
    \/ \E status \in EnrollmentStatus : updateStatus(1, status)

SpecLifecycle == InitLifecycle /\ [][NextLifecycle]_vars

(***************************************************************************)
(* Claims about an enrollment's status and progress (SpecLifecycle)        *)
(***************************************************************************)
\* C21: whatever updateProgress and updateStatus calls follow its creation,
\* the stored enrollment has status Completed exactly when its progress is
\* 100, and a completionDate only while its status is Completed.
C21_StatusMatchesProgress ==
    \A i \in 1..Len(server["enrollments"]) :
        LET e == server["enrollments"][i]
        IN /\ (e.status = COMPLETED) <=> (e.progress = 100)
           /\ e.completionDate # Undefined => e.status = COMPLETED

(***************************************************************************)
(* EnrollmentService.submitGrade                                           *)
(***************************************************************************)
\* a boolean field that is present; an absent one is Undefined
Boolean(b) == [kind |-> "boolean", value |-> b]

\* an enrollment with its optional grade and certificateIssued fields
GradedEnrollment(id, status, progress, grade, certificateIssued) ==
    Spread(ProgressEnrollment(id, status, progress, Undefined),
           [grade |-> grade, certificateIssued |-> certificateIssued])

GradeValues == {0, 69, 70, 71, 100}

\* the backend holds one enrollment, not graded yet
InitGrade ==
    /\ IdleSession
    /\ \E status \in {IN_PROGRESS, COMPLETED, DROPPED}, progress \in {50, 100} :
          server = [EmptyCollections EXCEPT
                       !["enrollments"] =
                           <<GradedEnrollment(1, status, progress, NoGrade, Undefined)>>]

submitGradeOfMutant(grade) ==
    [grade |-> Grade(grade), certificateIssued |-> Boolean(grade > 70)]

\* the updates submitGrade builds
submitGradeOf(grade) ==
    [grade |-> Grade(grade), certificateIssued |-> Boolean(grade >= 70)]

\* submitGrade: patchEnrollment sends the updates, the backend merges them,
\* the response updates the cache and reaches the caller transformed
submitGrade(enrollmentId, grade) ==
    LET updates == submitGradeOf(grade)
        req == Request("enrollments", "PATCH", enrollmentId, updates, "caller", NoCtx)
        served == Served(req, server["enrollments"], nextId["enrollments"])
    IN /\ call' = [name |-> "submitGrade", failed |-> {},
                   enrollmentId |-> enrollmentId, grade |-> grade,
                   updates |-> updates, before |-> server["enrollments"]]
       /\ server' = [server EXCEPT !["enrollments"] = served.list]
       /\ IF served.resp.state = "ok"
          THEN /\ cache' = [cache EXCEPT
                               !["enrollments"] =
                                   cacheAfterUpdate("enrollments", @, enrollmentId,
                                                    served.resp.entity)]
               /\ result' = [state |-> "ok", message |-> "",
                             value |-> transformEnrollment(served.resp.entity)]
          ELSE /\ cache' = cache
               /\ result' = [state |-> "error", value |-> <<>>,
                             message |-> handleError(served.resp)]
       /\ UNCHANGED <<authVars, nextId, http, lastOp, ops, deletedCourses, form,
                      dashboard, clock>>

NextGrade == \E enrollmentId \in 1..2, grade \in GradeValues : submitGrade(enrollmentId, grade)

SpecGrade == InitGrade /\ [][NextGrade]_vars

(***************************************************************************)
(* Claims about submitGrade (SpecGrade)                                    *)
(***************************************************************************)
\* C22: after any sequence of submitGrade calls the stored enrollment's
\* certificateIssued is true exactly when the grade submitted last is at
\* least 70: a successful submitGrade stores its grade and the certificate
\* that grade earns, a later lower grade withdraws the certificate, and every
\* other field of the enrollment is as it was before the call; a submitGrade
\* that fails stores nothing.
C22_SubmitGrade ==
    LET e == server["enrollments"][1]
    IN /\ Len(server["enrollments"]) = 1
       /\ e.grade.defined => e.certificateIssued = Boolean(e.grade.value >= 70)
       /\ ~e.grade.defined => e.certificateIssued = Undefined
       /\ call.name = "submitGrade" /\ result.state = "ok" =>
             /\ call.enrollmentId = 1
             /\ e.grade = Grade(call.grade)
             /\ e.certificateIssued = Boolean(call.grade >= 70)
             /\ \A f \in DOMAIN e \ {"grade", "certificateIssued"} :
                   e[f] = call.before[1][f]
             /\ result.value = transformEnrollment(e)
       /\ call.name = "submitGrade" /\ result.state = "error" =>
             /\ call.enrollmentId # 1
             /\ server["enrollments"] = call.before

\* a grade of 69 submitted after a passing grade withdrew the certificate
C22_Witness ==
    /\ call.name = "submitGrade"
    /\ call.grade = 69
    /\ result.state = "ok"
    /\ call.before[1].certificateIssued = Boolean(TRUE)
    /\ server["enrollments"][1].certificateIssued = Boolean(FALSE)

(***************************************************************************)
(* CourseService with several requests in flight: the responses of a       *)
(* create, a delete and a refresh reach the cache in any order             *)
(***************************************************************************)
MaxRaceInFlight == 2

MaxRaceOps == 2

\* the course page has just been opened: the constructor's load is in flight
InitRace == Init /\ url = "/courses"

\* a request sent while others are still in flight
IssueRacing(req) ==
    /\ Cardinality(http) < MaxRaceInFlight
    /\ ops < MaxRaceOps
    /\ ops' = ops + 1
    /\ http' = http \cup {req}
    /\ lastOp' = NoOp
    /\ UNCHANGED <<server, nextId, cache, deletedCourses, form>>
    /\ UNCHANGED <<authVars, queryVars>>

createCourseRacing(isActive) ==
    IssueRacing(Request("courses", "POST", 0, WithoutId(Course(0, isActive)),
                        "caller", NoCtx))

deleteCourseRacing(id) ==
    IssueRacing(Request("courses", "DELETE", id, NoBody, "caller", NoCtx))

\* CourseService.refreshCache
refreshCourses == IssueRacing(LoadRequest("courses"))

NextRace ==
    \/ createCourseRacing(TRUE)
    \/ \E id \in KnownIds("courses") : deleteCourseRacing(id)
    \/ refreshCourses
    \/ \E req \in http : Serve(req)
    \/ \E req \in http, m \in TransportErrors : Fail(req, m)
    \/ \E req \in http : Deliver(req)

SpecRace == InitRace /\ [][NextRace]_vars

(***************************************************************************)
(* Claims about the cache under racing responses (SpecRace)                *)
(***************************************************************************)
\* C23: in whatever order the responses of creates, deletes and refreshes of
\* a collection arrive, no cache holds two entries with the same id.
C23_DistinctIds ==
    \A svc \in Svcs :
        \A i, j \in 1..Len(cache[svc]) :
            i # j => cache[svc][i].id # cache[svc][j].id

(***************************************************************************)
(* EnrollmentFormComponent with several duplicate checks in flight         *)
(***************************************************************************)
\* two courses, and student 1 in progress in course 1
DupFixture ==
    [courses |-> <<Course(1, TRUE), Course(2, TRUE)>>,
     students |-> <<Student(1, "Active", <<1>>)>>,
     enrollments |-> <<Enrollment(1, 1, 1, IN_PROGRESS)>>]

\* the form is open and its lists and the services' caches are loaded
InitDup ==
    /\ currentUser = User("admin", "mock-jwt-token")
    /\ redirectUrl = "/dashboard"
    /\ url = "/enrollments/new"
    /\ loginTimers = {}
    /\ lastNav = NoNav
    /\ server = DupFixture
    /\ nextId = [s \in Svcs |-> Len(DupFixture[s]) + 1]
    /\ http = {}
    /\ cache = [s \in Svcs |-> TransformAll(s, DupFixture[s])]
    /\ lastOp = NoOp
    /\ ops = 0
    /\ deletedCourses = {}
    /\ form = [EmptyForm EXCEPT !.students = TransformAll("students", DupFixture["students"])]
    /\ call = NoCall
    /\ result = NoResult
    /\ dashboard = NoDashboard
    /\ clock = DefaultClock

\* the user picks a course while earlier checks may still be in flight:
\* validateDuplicateEnrollment subscribes to a new GET and leaves the earlier
\* subscriptions alone
selectCourseRacing(courseId) ==
    /\ Cardinality(http) < MaxRaceInFlight
    /\ form' = [form EXCEPT !.courseId = courseId, !.errors = "none"]
    /\ http' = http \cup DupChecks(courseId, form.studentId)
    /\ lastOp' = NoOp
    /\ UNCHANGED <<server, nextId, cache, ops, deletedCourses>>
    /\ UNCHANGED <<authVars, queryVars>>

selectStudentRacing(studentId) ==
    /\ Cardinality(http) < MaxRaceInFlight
    /\ form' = [form EXCEPT !.studentId = studentId, !.errors = "none",
                            !.selectedStudent = FindById(form.students, studentId)]
    /\ http' = http \cup DupChecks(form.courseId, studentId)
    /\ lastOp' = NoOp
    /\ UNCHANGED <<server, nextId, cache, ops, deletedCourses>>
    /\ UNCHANGED <<authVars, queryVars>>

NextDup ==
    \/ \E c \in 1..Len(DupFixture["courses"]) : selectCourseRacing(c)
    \/ \E st \in 1..Len(DupFixture["students"]) : selectStudentRacing(st)
    \/ \E req \in http : Serve(req)
    \/ \E req \in http, m \in TransportErrors : Fail(req, m)
    \/ \E req \in http : Deliver(req)

SpecDup == InitDup /\ [][NextDup]_vars

(***************************************************************************)
(* Claims about the duplicate check under racing responses (SpecDup)       *)
(***************************************************************************)
\* the response of a duplicate check for an earlier selection is delivered
StaleCheckDelivered ==
    \E req \in http :
        /\ req.from = "dupcheck"
        /\ req.resp # Pending
        /\ req \notin http'
        /\ <<req.ctx.courseId, req.ctx.studentId>> # <<form.courseId, form.studentId>>

C24_Step == StaleCheckDelivered => form'.errors = form.errors

\* C24: when the selection changed while a duplicate check was in flight, the
\* response of that earlier check neither sets nor clears the form's
\* duplicate error, which belongs to the pair selected now.
C24_ErrorOfCurrentPair == [][C24_Step]_vars

====
